---- MODULE Spec2Model ----
(***************************************************************************)
(* ExpensoX: expense submission and approval (app variant, src/app/...),   *)
(* the OTP verification service (src/app/models/otp.py,                    *)
(* src/app/services/otp_service.py) and the approval step of the root      *)
(* variant (src/manager/routes.py).                                        *)
(*                                                                         *)
(* Database tables are sequences of records, a row's id is its position.   *)
(* None is 0: ids start at 1.  A handler that commits at most once is one  *)
(* action.  auth.signup commits twice and then waits for the mail server:  *)
(* it is three actions, and the requests between their commits are the     *)
(* variable requests.  The identity of the caller is the user id of the    *)
(* session cookie the request presents; the set of session cookies issued  *)
(* so far is the variable sessions (Flask sessions are client-side signed  *)
(* cookies, any issued cookie may be presented).                           *)
(***************************************************************************)
EXTENDS Integers, Sequences, FiniteSets, TLC

\* ---------------------------------------------------------------- bounds
MaxUsers == 3
MaxExpenses == 2
MaxStaff == 2
MaxAdmins == 2
MaxFlows == 2
MaxRules == 1
MaxOtps == 2
MaxTime == 15
TickMinutes == 5
MaxOtpUsers == 1
MaxVerifyUsers == 2
MaxRootCompanies == 1
MaxRootRequests == 2
MaxRootUsers == 3
MaxRootExpenses == 1
MaxRootFlows == 2
MaxRootRules == 1
MaxRootHistory == 2
MaxGuesses == 2
NumCompanies == 2
MaxResetOtps == 3
MaxTenants == 2
MaxRequests == 1

\* ------------------------------------------------------ program constants
None == 0
VALIDITY_MINUTES == 10
MAX_ATTEMPTS == 5

CompanyIds == 1..NumCompanies
Codes == {"100000", "999999"}
Passwords == {"pw"}
OtpTypes == {"signup", "password_reset"}
FlowNames == {"travel", "meals"}
StepLists == {<<>>, <<"manager">>, <<"manager", "finance">>, <<"finance", "manager">>}

NoProfile == [exists |-> FALSE, manager_id |-> None]
EmptySession ==
    [user_id |-> None, pending_user_id |-> None,
     password_reset_verified |-> FALSE, password_reset_user_id |-> None]
NoResp == [op |-> "none", status |-> 0, id |-> None, info |-> <<>>]

VARIABLES
    companies,   \* set of company ids (rows of companies)
    users,       \* sequence of User rows, with the EmployeeProfile of each
    expenses,    \* sequence of Expense rows
    approvals,   \* sequence of ExpenseApproval rows
    flows,       \* sequence of ApprovalFlow rows
    rules,       \* sequence of ApprovalRule rows
    otps,        \* sequence of OTPVerification rows, in creation order
    sessions,    \* set of session cookies issued so far
    now,         \* datetime.utcnow(), in minutes
    requests,    \* requests in flight between two commits or waiting for the mail
                 \* server: their position (pc), user and what their answer needs
    resp,        \* the last response
    rootCompanies,  \* root variant: number of Company rows
    rootUsers,      \* root variant: sequence of User rows
    rootExpenses,   \* root variant: sequence of Expense rows
    rootFlows,      \* root variant: sequence of ApprovalFlow rows
    rootRules,      \* root variant: sequence of ApprovalRule rows
    rootHistory,    \* root variant: sequence of ApprovalHistory rows
    rootRequests,   \* root variant: the emails of the signups waiting on the mail server
    rootNotices,    \* root variant: the decisions committed whose notification mail is awaited
    rootLoginManager  \* root variant: the application has a flask_login LoginManager

appState == <<companies, users, expenses, approvals, flows, rules, otps, sessions, now, requests>>
rootVars == <<rootCompanies, rootUsers, rootExpenses, rootFlows, rootRules, rootHistory, rootRequests,
              rootNotices, rootLoginManager>>
vars == <<appState, resp, rootVars>>

\* ------------------------------------------------------------ helpers
Max(S) == CHOOSE x \in S : \A y \in S : y <= x
UserExists(uid) == uid \in 1..Len(users)
Role(uid) == users[uid].role
\* flask_login current_user of a request presenting cookie s
current_user(s) == IF UserExists(s.user_id) THEN s.user_id ELSE None
\* flask_login @login_required with login_manager.login_view = "auth.login": an
\* anonymous caller is redirected to the login page; 0 when the view runs
login_required(s) == IF current_user(s) = None THEN 302 ELSE 0
\* @login_required outside @role_required(role): 0 when the view runs.  The 401
\* of helpers.role_required is behind login_required and never answered.
role_required(s, role) ==
    IF login_required(s) # 0 THEN login_required(s)
    ELSE IF current_user(s) = None THEN 401
    ELSE IF Role(current_user(s)) # role THEN 403
    ELSE 0

\* ------------------------------------------------ OTPVerification (model)
\* OTPVerification.__init__
OTPVerification(user_id, otp_type, email, code) ==
    [user_id |-> user_id, otp_type |-> otp_type, email |-> email, otp_code |-> code,
     is_used |-> FALSE, attempts |-> 0, max_attempts |-> MAX_ATTEMPTS,
     expires_at |-> now + VALIDITY_MINUTES]

\* A creation that leaves the existing rows as they are
create_otp_keeping(user_id, otp_type, email, code) ==
    Append(otps, OTPVerification(user_id, otp_type, email, code))

\* OTPVerification.create_otp: the table after the call
create_otp(user_id, otp_type, email, code) ==
    Append(
        [i \in 1..Len(otps) |->
            IF otps[i].user_id = user_id /\ otps[i].otp_type = otp_type /\ ~otps[i].is_used
            THEN [otps[i] EXCEPT !.is_used = TRUE]
            ELSE otps[i]],
        OTPVerification(user_id, otp_type, email, code))

\* ------------------------------------------------------- approval engine
\* A save that normalises the steps: duplicates and order are lost
SortedSteps(items) ==
    IF "finance" \in {items[i] : i \in 1..Len(items)}
    THEN (IF "manager" \in {items[i] : i \in 1..Len(items)} THEN <<"finance", "manager">> ELSE <<"finance">>)
    ELSE (IF "manager" \in {items[i] : i \in 1..Len(items)} THEN <<"manager">> ELSE <<>>)
create_approval_flow_sorted(flow, steps) == [flow EXCEPT !.steps = SortedSteps(steps.items)]

\* approval_engine.create_approval_flow: the flow row after the call
create_approval_flow(flow, steps) == [flow EXCEPT !.steps = steps.items]

\* A rule evaluation that decides: the entity is reported approved
evaluate_rules_decides(entity_id) == [status |-> "approved", entity |-> entity_id]

\* approval_engine.evaluate_rules: the returned dict
evaluate_rules(entity_id) == [status |-> "evaluation_pending", entity |-> entity_id]

\* A routing that climbs the org chart: the manager's manager when there is one
next_approver_two_hops(user_id, expense) ==
    LET m == IF users[user_id].profile.exists THEN users[user_id].profile.manager_id ELSE None
    IN IF m \in 1..Len(users) /\ users[m].profile.exists /\ users[m].profile.manager_id # None
       THEN users[m].profile.manager_id ELSE m

\* approval_engine.next_approver_logic
next_approver_logic(user_id, expense) ==
    IF users[user_id].profile.exists THEN users[user_id].profile.manager_id ELSE None

\* ----------------------------------------------------------- auth (app)
\* str.lower() on the email inputs
lower(email) == IF email = "A@x.io" THEN "a@x.io" ELSE email

\* UserRole[x.upper()]: the enum member, "KeyError" when there is none
UserRoleOf(role_in) ==
    CASE role_in = "admin" -> "ADMIN"
      [] role_in = "manager" -> "MANAGER"
      [] role_in = "employee" -> "EMPLOYEE"
      [] OTHER -> "KeyError"

EmailTaken(email) == \E i \in 1..Len(users) : users[i].email = email

Respond(op, status, id, info) == resp' = [op |-> op, status |-> status, id |-> id, info |-> info]

\* OTPService.generate_and_send_otp as called by a route: the OTP table after it
generate_and_send_otp(user_id, otp_type, email, code) == create_otp(user_id, otp_type, email, code)

\* A test that accepts every user as manager
manager_belongs_anywhere(manager_id, uid, company) == manager_id \in 1..uid

\* The manager test of auth.signup, made after the flush: the new row uid, of the
\* company given, is visible to User.query.get(manager_id)
manager_belongs(manager_id, uid, company) ==
    /\ manager_id \in 1..uid
    /\ (IF manager_id = uid THEN company ELSE users[manager_id].company_id) = company

\* The requests of one view that are between two of their commits
in_flight(pcs) == {r \in requests : r.pc \in pcs}

\* auth.signup (POST) up to its commit of the new user (line 108).  s: the session
\* cookie presented; p: the payload.  A refusal is answered at once; otherwise the
\* request goes on in signup_create_otp.
signup(s, p) ==
    LET email == lower(p.email)
        is_bootstrap == companies = {}
        user_role == IF p.role = "" THEN (IF is_bootstrap THEN "admin" ELSE "employee") ELSE p.role
        role == UserRoleOf(user_role)
        uid == Len(users) + 1
        company_ok == p.company \in companies
        has_profile == role \in {"EMPLOYEE", "MANAGER"}
        manager_ok == manager_belongs(p.manager_id, uid, p.company)
        user == [email |-> email, password |-> p.password, role |-> role,
                 company_id |-> p.company, is_active |-> TRUE, is_email_verified |-> FALSE,
                 profile |-> IF has_profile
                             THEN [exists |-> TRUE, manager_id |-> p.manager_id]
                             ELSE NoProfile]
        fail(status, msg) ==
            /\ Respond("signup", status, None, <<msg>>)
            /\ UNCHANGED <<companies, users, expenses, approvals, flows, rules, otps, sessions, now, rootVars, requests>>
    IN
    IF p.missing THEN fail(400, "Missing required fields")
    ELSE IF EmailTaken(email) THEN fail(409, "Email already registered.")
    ELSE IF role = "KeyError" THEN fail(400, "Unknown role")
    ELSE IF is_bootstrap THEN
        \* Company(name, currency_code) leaves companies.country (NOT NULL) unset:
        \* the flush raises IntegrityError and nothing is persisted
        IF p.company = None THEN fail(400, "Company name is required for first signup.")
        ELSE fail(500, "IntegrityError")
    ELSE IF ~company_ok THEN fail(404, "Company not found.")
    ELSE IF has_profile /\ p.manager_id # None /\ ~manager_ok
        THEN fail(400, "Manager must belong to the same company.")
    ELSE
        /\ Len(users) < MaxUsers
        /\ Cardinality(in_flight({"create_otp", "send_otp_email"})) < MaxRequests
        /\ users' = Append(users, user)
        /\ requests' = requests \cup {[s |-> s, user_id |-> uid, pc |-> "create_otp"]}
        /\ UNCHANGED <<companies, expenses, approvals, flows, rules, otps, sessions, now, resp, rootVars>>

\* auth.signup, second commit (lines 111-117): generate_and_send_otp creates the
\* code for the committed user in a transaction of its own (otp.py 103-121).
\* code: the OTP drawn by secrets.randbelow.
signup_create_otp(r, code) ==
    /\ r \in requests /\ r.pc = "create_otp"
    /\ otps' = generate_and_send_otp(r.user_id, "signup", users[r.user_id].email, code)
    /\ requests' = (requests \ {r}) \cup {[r EXCEPT !.pc = "send_otp_email"]}
    /\ UNCHANGED <<companies, users, expenses, approvals, flows, rules, sessions, now, resp, rootVars>>

\* auth.signup, the answer (lines 110, 119-125) once send_otp_email has returned
\* email_sent: the new user is logged in when the mail was not sent
signup_redirect(r, email_sent) ==
    /\ r \in requests /\ r.pc = "send_otp_email"
    /\ sessions' = sessions \cup {[r.s EXCEPT !.pending_user_id = r.user_id,
                                             !.user_id = IF email_sent THEN r.s.user_id ELSE r.user_id]}
    /\ requests' = requests \ {r}
    /\ Respond("signup", 302, r.user_id, <<IF email_sent THEN "otp.verify_page" ELSE "main.dashboard">>)
    /\ UNCHANGED <<companies, users, expenses, approvals, flows, rules, otps, now, rootVars>>

\* User.query.filter_by(email=email).first(): the candidate rows
users_by_email(email) == {i \in 1..Len(users) : users[i].email = email}

\* A response of the auth views that leaves the database and the session as they are
AuthRefuse(op, status, msg) ==
    /\ Respond(op, status, None, <<msg>>)
    /\ UNCHANGED <<companies, users, expenses, approvals, flows, rules, otps, sessions, now, rootVars, requests>>

\* User.check_password on the passwords offered
check_password(user, password) == user.password = password

\* flask_login.login_user: the session with the user logged in
login_user(s, uid) == [s EXCEPT !.user_id = uid]

\* A view that has committed a code in generate_and_send_otp (otp.py 119) waits
\* for the mail server before it answers.  r: what the answer will need, the
\* session where the view changes it
await_mail(r) ==
    /\ Cardinality(in_flight({"login.mail", "forgot_password.mail", "send_otp.mail",
                               "resend_otp.mail"})) < MaxRequests
    /\ r \notin requests
    /\ requests' = requests \cup {r}

\* auth.login (POST) up to the commit of the code sent to an unverified user.
\* code: the OTP drawn when a verification code is sent
login(s, email_in, password, code) ==
    LET email == lower(email_in) IN
    IF current_user(s) # None THEN AuthRefuse("login", 302, "main.dashboard")
    ELSE IF email = "" \/ password = "" THEN AuthRefuse("login", 400, "Email and password are required.")
    ELSE IF \A u \in users_by_email(email) : ~check_password(users[u], password)
    THEN AuthRefuse("login", 401, "Invalid credentials.")
    ELSE \E u \in users_by_email(email) :
        IF ~users[u].is_active THEN AuthRefuse("login", 403, "User account is inactive.")
        ELSE IF ~users[u].is_email_verified
        THEN /\ otps' = generate_and_send_otp(u, "signup", users[u].email, code)
             /\ await_mail([s |-> s, user_id |-> u, pc |-> "login.mail"])
             /\ UNCHANGED <<companies, users, expenses, approvals, flows, rules, sessions, now,
                            resp, rootVars>>
        ELSE /\ sessions' = sessions \cup {login_user(s, u)}
             /\ Respond("login", 200, u, <<"Login successful.">>)
             /\ UNCHANGED <<companies, users, expenses, approvals, flows, rules, otps, now, rootVars, requests>>

\* auth.login, the answer to an unverified user (lines 173-175) once
\* send_otp_email has returned, whatever it returned: the cookie of the response
\* carries pending_user_id
login_redirect(r) ==
    /\ r \in requests /\ r.pc = "login.mail"
    /\ sessions' = sessions \cup {[r.s EXCEPT !.pending_user_id = r.user_id]}
    /\ requests' = requests \ {r}
    /\ Respond("login", 302, r.user_id, <<"otp.verify_page">>)
    /\ UNCHANGED <<companies, users, expenses, approvals, flows, rules, otps, now, rootVars>>

\* auth.profile (POST), named auth_profile here; an empty string is a field left out.  The views that return
\* before the commit leave the database as it was
auth_profile(s, email_in, current_password, new_password, confirm_password) ==
    LET u == current_user(s)
        changes_email == email_in # "" /\ email_in # users[u].email
        changes_password == current_password # "" /\ new_password # ""
        with_email == IF changes_email
                      THEN [users[u] EXCEPT !.email = email_in, !.is_email_verified = FALSE]
                      ELSE users[u]
        with_password == IF changes_password
                         THEN [with_email EXCEPT !.password = new_password]
                         ELSE with_email
    IN
    IF login_required(s) # 0 THEN AuthRefuse("profile", login_required(s), "auth.login")
    ELSE IF changes_email /\ \E i \in users_by_email(email_in) : i # u
    THEN AuthRefuse("profile", 200, "Email is already in use.")
    ELSE IF changes_password /\ ~check_password(users[u], current_password)
    THEN AuthRefuse("profile", 200, "Current password is incorrect.")
    ELSE IF changes_password /\ new_password # confirm_password
    THEN AuthRefuse("profile", 200, "New passwords do not match.")
    ELSE
        /\ users' = [users EXCEPT ![u] = with_password]
        /\ Respond("profile", 200, u, <<"Profile updated successfully.">>)
        /\ UNCHANGED <<companies, expenses, approvals, flows, rules, otps, sessions, now, rootVars, requests>>

\* auth.forgot_password (POST) up to the commit of the code.  code: the OTP drawn
forgot_password(s, email_in, code) ==
    LET email == lower(email_in) IN
    IF email = "" THEN AuthRefuse("forgot_password", 200, "Email address is required.")
    ELSE IF users_by_email(email) = {}
    THEN AuthRefuse("forgot_password", 200,
                    "If an account with that email exists, you will receive a password reset code.")
    ELSE \E u \in users_by_email(email) :
        /\ otps' = generate_and_send_otp(u, "password_reset", users[u].email, code)
        /\ await_mail([s |-> s, user_id |-> u, pc |-> "forgot_password.mail"])
        /\ UNCHANGED <<companies, users, expenses, approvals, flows, rules, sessions, now,
                       resp, rootVars>>

\* auth.forgot_password, the answer (lines 286-296) once send_otp_email has
\* returned email_sent; the cookie of the response carries pending_user_id
forgot_password_answer(r, email_sent) ==
    /\ r \in requests /\ r.pc = "forgot_password.mail"
    /\ sessions' = sessions \cup {[r.s EXCEPT !.pending_user_id = r.user_id]}
    /\ requests' = requests \ {r}
    /\ IF email_sent
       THEN Respond("forgot_password", 302, r.user_id, <<"otp.verify_page">>)
       ELSE Respond("forgot_password", 200, r.user_id, <<"Failed to send password reset code">>)
    /\ UNCHANGED <<companies, users, expenses, approvals, flows, rules, otps, now, rootVars>>

\* The session after session.pop('password_reset_verified') and
\* session.pop('password_reset_user_id')
clear_reset(s) == [s EXCEPT !.password_reset_verified = FALSE, !.password_reset_user_id = None]

\* The first test of auth.reset_password: session.get('password_reset_verified')
reset_allowed(s) == s.password_reset_verified

\* auth.reset_password (POST); an empty string is a field left out
reset_password(s, new_password, confirm_password) ==
    IF ~reset_allowed(s)
    THEN AuthRefuse("reset_password", 302, "Please complete email verification first.")
    ELSE IF new_password = "" \/ confirm_password = ""
    THEN AuthRefuse("reset_password", 200, "Both password fields are required.")
    ELSE IF new_password # confirm_password
    THEN AuthRefuse("reset_password", 200, "Passwords do not match.")
    ELSE IF ~UserExists(s.password_reset_user_id)
    THEN AuthRefuse("reset_password", 302, "Invalid reset session.")
    ELSE
        /\ users' = [users EXCEPT ![s.password_reset_user_id].password = new_password]
        /\ sessions' = sessions \cup {clear_reset(s)}
        \* the response carries the session cookie as the view left it
        /\ Respond("reset_password", 302, s.password_reset_user_id,
                   <<"Password reset successfully. Please log in with your new password.",
                     clear_reset(s)>>)
        /\ UNCHANGED <<companies, expenses, approvals, flows, rules, otps, now, rootVars, requests>>

\* ------------------------------------------------------- employee (app)
\* A parse that accepts every amount
DecimalParsesAnything(amount) == TRUE

\* Decimal(str(amount)) succeeds
DecimalParses(amount) == amount \in {"12.50"}
\* date.fromisoformat(date_spent) succeeds
IsoDateParses(d) == d \in {"2025-10-04"}

\* employee.submit_expense (POST)
submit_expense(s, p) ==
    LET u == current_user(s)
        denied == role_required(s, "EMPLOYEE")
        eid == Len(expenses) + 1
        expense == [company_id |-> users[u].company_id, submitter_user_id |-> u,
                    amount_original |-> p.amount, date_spent |-> p.date_spent,
                    status |-> "PENDING"]
        profile == users[u].profile
        a1 == next_approver_logic(u, expense)
        approver_id == IF a1 = None /\ profile.exists /\ profile.manager_id # None
                       THEN profile.manager_id ELSE a1
        approval == [expense_id |-> eid, approver_user_id |-> approver_id, step_number |-> 1,
                     status |-> "PENDING", comment |-> "", acted_at |-> None]
        fail(status, msg) ==
            /\ Respond("submit_expense", status, None, <<msg>>)
            /\ UNCHANGED <<companies, users, expenses, approvals, flows, rules, otps, sessions, now, rootVars, requests>>
    IN
    IF denied # 0 THEN fail(denied, "denied")
    ELSE IF p.missing THEN fail(400, "Missing fields")
    ELSE IF ~DecimalParses(p.amount) THEN fail(400, "Invalid amount.")
    ELSE IF ~IsoDateParses(p.date_spent) THEN fail(400, "Invalid 'date_spent' format. Use YYYY-MM-DD.")
    ELSE
        /\ Len(expenses) < MaxExpenses
        /\ expenses' = Append(expenses, expense)
        /\ approvals' = Append(approvals, approval)
        \* evaluate_rules(expense) is called after the commit, its result is dropped
        /\ Respond("submit_expense", 201, eid, <<"Expense submitted.">>)
        /\ UNCHANGED <<companies, users, flows, rules, otps, sessions, now, rootVars, requests>>

\* -------------------------------------------------------- manager (app)
\* The query without its approver_user_id filter
latest_approvals_of_anyone(expense_id, uid) ==
    LET mine == {i \in 1..Len(approvals) : approvals[i].expense_id = expense_id}
    IN {i \in mine : \A j \in mine : approvals[j].step_number <= approvals[i].step_number}

\* ExpenseApproval.query.filter_by(expense_id, approver_user_id)
\*   .order_by(step_number.desc()).first(): the candidate rows (empty: None)
latest_approvals(expense_id, uid) ==
    LET mine == {i \in 1..Len(approvals) :
                    approvals[i].expense_id = expense_id /\ approvals[i].approver_user_id = uid}
    IN {i \in mine : \A j \in mine : approvals[j].step_number <= approvals[i].step_number}

\* manager._update_approval, for the authenticated manager uid
_update_approval(op, uid, expense_id, new_status, comment) ==
    LET cand == latest_approvals(expense_id, uid)
        fail(msg) ==
            /\ Respond(op, 404, expense_id, <<msg>>)
            /\ UNCHANGED <<companies, users, expenses, approvals, flows, rules, otps, sessions, now, rootVars, requests>>
    IN
    IF cand = {} THEN fail("No pending approval found for this expense.")
    ELSE \E a \in cand :
        IF approvals[a].status # "PENDING" THEN fail("No pending approval found for this expense.")
        ELSE IF expense_id \notin 1..Len(expenses) THEN fail("Expense not found.")
        ELSE
            /\ approvals' = [approvals EXCEPT ![a] =
                    [@ EXCEPT !.status = new_status, !.comment = comment, !.acted_at = now]]
            /\ expenses' = [expenses EXCEPT ![expense_id].status = new_status]
            /\ Respond(op, 200, expense_id, <<a>>)
            /\ UNCHANGED <<companies, users, flows, rules, otps, sessions, now, rootVars, requests>>

Denied(op, status) ==
    /\ Respond(op, status, None, <<"denied">>)
    /\ UNCHANGED <<companies, users, expenses, approvals, flows, rules, otps, sessions, now, rootVars, requests>>

\* manager.approve_expense (POST)
approve_expense(s, expense_id, comment) ==
    IF role_required(s, "MANAGER") # 0 THEN Denied("approve_expense", role_required(s, "MANAGER"))
    ELSE _update_approval("approve_expense", current_user(s), expense_id, "APPROVED", comment)

\* manager.reject_expense (POST)
reject_expense(s, expense_id, comment) ==
    IF role_required(s, "MANAGER") # 0 THEN Denied("reject_expense", role_required(s, "MANAGER"))
    ELSE _update_approval("reject_expense", current_user(s), expense_id, "REJECTED", comment)

\* ---------------------------------------------------------- admin (app)
\* A 'steps' value of a payload: a JSON list (its items) or any other JSON value
StepsInputs == [is_list : {TRUE}, items : StepLists] \cup {[is_list |-> FALSE, items |-> <<>>]}
\* isinstance(steps, (list, tuple))
IsList(steps) == steps.is_list

\* ApprovalFlow.query.filter_by(company_id, name).first(): the candidate rows
flows_named(company_id, name) ==
    {i \in 1..Len(flows) : flows[i].company_id = company_id /\ flows[i].name = name}

\* admin.create_or_update_flow (POST)
create_or_update_flow(s, name, steps, is_default) ==
    LET denied == role_required(s, "ADMIN")
        company_id == users[current_user(s)].company_id
        cand == flows_named(company_id, name)
        fail(status, msg) ==
            /\ Respond("create_or_update_flow", status, None, <<msg>>)
            /\ UNCHANGED <<companies, users, expenses, approvals, flows, rules, otps, sessions, now, rootVars, requests>>
    IN
    IF denied # 0 THEN fail(denied, "denied")
    ELSE IF name = "" \/ ~IsList(steps) THEN fail(400, "'name' and list of 'steps' are required.")
    ELSE IF cand = {} THEN
        /\ Len(flows) < MaxFlows
        /\ flows' = Append(flows,
                create_approval_flow(
                    [company_id |-> company_id, name |-> name, steps |-> steps.items,
                     is_default |-> is_default], steps))
        /\ Respond("create_or_update_flow", 200, Len(flows) + 1, <<"Approval flow saved.">>)
        /\ UNCHANGED <<companies, users, expenses, approvals, rules, otps, sessions, now, rootVars, requests>>
    ELSE \E f \in cand :
        /\ flows' = [flows EXCEPT ![f] =
                create_approval_flow([@ EXCEPT !.steps = steps.items, !.is_default = is_default], steps)]
        /\ Respond("create_or_update_flow", 200, f, <<"Approval flow saved.">>)
        /\ UNCHANGED <<companies, users, expenses, approvals, rules, otps, sessions, now, rootVars, requests>>

\* admin.create_user (POST).  No request persists a user: User(name=...) names a
\* keyword the model does not have, the constructor raises TypeError
create_user(s, p) ==
    LET denied == role_required(s, "ADMIN")
        email == lower(p.email)
        role == UserRoleOf(p.role)
        manager_id == IF role = "EMPLOYEE" THEN p.manager_id ELSE None
        fail(status, msg) ==
            /\ Respond("create_user", status, None, <<msg>>)
            /\ UNCHANGED <<companies, users, expenses, approvals, flows, rules, otps, sessions, now, rootVars, requests>>
    IN
    IF denied # 0 THEN fail(denied, "denied")
    ELSE IF p.missing THEN fail(400, "Missing fields")
    ELSE IF EmailTaken(email) THEN fail(409, "Email already exists.")
    ELSE IF role = "KeyError" THEN fail(400, "Unsupported role.")
    ELSE IF manager_id # None
            /\ (~UserExists(manager_id)
                \/ users[manager_id].company_id # users[current_user(s)].company_id)
    THEN fail(400, "Invalid manager selected.")
    ELSE fail(500, "TypeError")

\* ApprovalRuleType[x.upper()]: the enum member, "KeyError" when there is none
ApprovalRuleTypeOf(rule_type) ==
    CASE rule_type = "percentage" -> "PERCENTAGE"
      [] rule_type = "specific" -> "SPECIFIC"
      [] rule_type = "hybrid" -> "HYBRID"
      [] OTHER -> "KeyError"

\* admin.create_or_update_rule (POST)
create_or_update_rule(s, rule_type, specific_approver_id) ==
    LET denied == role_required(s, "ADMIN")
        rule_enum == ApprovalRuleTypeOf(rule_type)
        rid == Len(rules) + 1
        fail(status, msg) ==
            /\ Respond("create_or_update_rule", status, None, <<msg>>)
            /\ UNCHANGED <<companies, users, expenses, approvals, flows, rules, otps, sessions, now, rootVars, requests>>
    IN
    IF denied # 0 THEN fail(denied, "denied")
    ELSE IF rule_enum = "KeyError" THEN fail(400, "Invalid rule_type.")
    ELSE
        /\ Len(rules) < MaxRules
        /\ rules' = Append(rules,
                [company_id |-> users[current_user(s)].company_id, rule_type |-> rule_enum,
                 specific_approver_id |-> specific_approver_id])
        /\ Respond("create_or_update_rule", 201, rid, <<evaluate_rules(rid)>>)
        /\ UNCHANGED <<companies, users, expenses, approvals, flows, otps, sessions, now, rootVars, requests>>

\* ------------------------------------------- OTP model methods and service
\* OTPVerification.is_valid
is_valid(otp) == ~otp.is_used /\ otp.attempts < otp.max_attempts /\ now <= otp.expires_at

\* OTPVerification.is_expired
is_expired(otp) == now > otp.expires_at

\* OTPVerification.time_remaining, in seconds; None when expired
time_remaining(otp) == IF is_expired(otp) THEN None ELSE (otp.expires_at - now) * 60

\* The lookup without its user_id filter
get_active_otp_of_type(user_id, otp_type) ==
    {i \in 1..Len(otps) :
        /\ otps[i].otp_type = otp_type
        /\ ~otps[i].is_used
        /\ otps[i].expires_at > now
        /\ otps[i].attempts < otps[i].max_attempts}

\* OTPVerification.get_active_otp: the rows the query matches
get_active_otp(user_id, otp_type) ==
    {i \in 1..Len(otps) :
        /\ otps[i].user_id = user_id
        /\ otps[i].otp_type = otp_type
        /\ ~otps[i].is_used
        /\ otps[i].expires_at > now
        /\ otps[i].attempts < otps[i].max_attempts}

\* Query.first() without ORDER BY: any matching row, None when there is none
first(rows) == IF rows = {} THEN {None} ELSE rows

\* A verification that leaves the record usable
verify_code_reusable(otp, provided_code) ==
    LET counted == [otp EXCEPT !.attempts = @ + 1]
    IN IF ~is_valid(counted) THEN [result |-> FALSE, attempts |-> counted.attempts, row |-> otp]
       ELSE [result |-> counted.otp_code = provided_code, attempts |-> counted.attempts,
             row |-> counted]

\* OTPVerification.verify_code: the result, the attempts the caller reads from the
\* object afterwards, and the row as committed.  The path that returns before any
\* commit leaves the stored row as it was: the request's session is rolled back.
verify_code(otp, provided_code) ==
    LET counted == [otp EXCEPT !.attempts = @ + 1]
    IN IF ~is_valid(counted) THEN [result |-> FALSE, attempts |-> counted.attempts, row |-> otp]
       ELSE IF counted.otp_code = provided_code
            THEN [result |-> TRUE, attempts |-> counted.attempts,
                  row |-> [counted EXCEPT !.is_used = TRUE]]
       ELSE [result |-> FALSE, attempts |-> counted.attempts, row |-> counted]

\* OTPVerification.cleanup_expired: the table after the call
cleanup_expired == SelectSeq(otps, LAMBDA o : ~(o.expires_at < now))

\* OTPService.verify_otp for the row get_active_otp returned (None: no row):
\* success, message, the remaining attempts it names, and the table afterwards
OTPService_verify_otp(i, provided_code) ==
    LET otp == otps[i]
        v == verify_code(otp, provided_code)
        remaining_attempts == otp.max_attempts - v.attempts
        answer(success, message, k, table) ==
            [success |-> success, message |-> message, remaining |-> k, table |-> table]
    IN IF i = None
       THEN answer(FALSE, "No valid verification code found. Please request a new one.", 0, otps)
       ELSE IF is_expired(otp)
       THEN answer(FALSE, "Verification code has expired. Please request a new one.", 0, otps)
       ELSE IF otp.attempts >= otp.max_attempts
       THEN answer(FALSE, "Maximum verification attempts exceeded. Please request a new code.", 0, otps)
       ELSE IF v.result
       THEN answer(TRUE, "Verification successful", 0, [otps EXCEPT ![i] = v.row])
       ELSE IF remaining_attempts > 0
       THEN answer(FALSE, "Invalid verification code. {remaining_attempts} attempts remaining.",
                   remaining_attempts, [otps EXCEPT ![i] = v.row])
       ELSE answer(FALSE, "Invalid verification code. Maximum attempts exceeded.", 0,
                   [otps EXCEPT ![i] = v.row])

\* The threshold of OTPService.resend_otp, in seconds of remaining validity
RESEND_THRESHOLD == 480
\* A limit that refuses whenever an active row exists
resend_too_soon_any(i) == i # None

\* OTPService.resend_otp refuses: the active row (None: no row) is too recent
resend_too_soon(i) ==
    /\ i # None
    /\ time_remaining(otps[i]) # None
    /\ time_remaining(otps[i]) > RESEND_THRESHOLD

\* OTPService.get_otp_status for the row get_active_otp returned (None: no row)
get_otp_status(i) ==
    IF i = None
    THEN [exists |-> FALSE, is_valid |-> FALSE, time_remaining |-> None,
          attempts_remaining |-> 0, is_expired |-> FALSE]
    ELSE [exists |-> TRUE, is_valid |-> is_valid(otps[i]),
          time_remaining |-> time_remaining(otps[i]),
          attempts_remaining |-> Max({0, otps[i].max_attempts - otps[i].attempts}),
          is_expired |-> is_expired(otps[i])]

\* ----------------------------------------------------------- otp routes
\* The permission check of the otp routes.  current_user.role is a UserRole and
\* never equals the string 'admin': only the user itself passes the first test.
otp_permitted(s, user_id, otp_type) ==
    \/ current_user(s) # None /\ current_user(s) = user_id
    \/ otp_type \in {"signup", "password_reset"} /\ s.pending_user_id = user_id

\* otp_code.isdigit() and len(otp_code) == 6, on the codes offered
isdigit6(otp_code) == otp_code \in {"100000", "999999"}

OtpRespond(op, status, user_id, otp_type, success, message, k) ==
    Respond(op, status, user_id,
            [otp_type |-> otp_type, success |-> success, message |-> message, remaining |-> k])

\* A refusal: the request is not echoed in the response
OtpRefuse(op, status, user_id, otp_type, message) ==
    /\ OtpRespond(op, status, None, "", FALSE, message, 0)
    /\ UNCHANGED <<companies, users, expenses, approvals, flows, rules, otps, sessions, now, rootVars, requests>>

\* What generate_and_send_otp returns once send_otp_email has returned email_sent
mail_message(email_sent) ==
    IF email_sent THEN "Verification code sent successfully"
    ELSE "Failed to send verification code. Please try again."

\* otp.send_otp (POST) up to the commit of the code.  code: the OTP drawn
send_otp(s, user_id, otp_type, code) ==
    IF otp_type = "" \/ user_id = None
    THEN OtpRefuse("send_otp", 400, user_id, otp_type, "Missing required parameters")
    ELSE IF otp_type \notin {"signup", "login", "password_reset", "two_factor"}
    THEN OtpRefuse("send_otp", 400, user_id, otp_type, "Invalid OTP type")
    ELSE IF ~UserExists(user_id)
    THEN OtpRefuse("send_otp", 404, user_id, otp_type, "User not found")
    ELSE IF ~otp_permitted(s, user_id, otp_type)
    THEN OtpRefuse("send_otp", 403, user_id, otp_type, "Unauthorized")
    ELSE
        /\ Len(otps) < MaxOtps
        /\ otps' = generate_and_send_otp(user_id, otp_type, users[user_id].email, code)
        /\ await_mail([user_id |-> user_id, otp_type |-> otp_type, pc |-> "send_otp.mail"])
        /\ UNCHANGED <<companies, users, expenses, approvals, flows, rules, sessions, now,
                       resp, rootVars>>

\* otp.send_otp, the answer (routes.py 92-102) once send_otp_email has returned
\* email_sent
send_otp_answer(r, email_sent) ==
    /\ r \in requests /\ r.pc = "send_otp.mail"
    /\ requests' = requests \ {r}
    /\ OtpRespond("send_otp", 200, r.user_id, r.otp_type, email_sent, mail_message(email_sent), 0)
    /\ UNCHANGED <<companies, users, expenses, approvals, flows, rules, otps, sessions, now,
                   rootVars>>

\* otp.verify_otp (POST) up to the commit of verify_code (otp.py 57-68).  A signup
\* code that is accepted for an existing user leaves the request in flight: the
\* view marks the user verified in a second commit, verify_otp_mark_verified.
verify_otp(s, user_id, otp_type, otp_code) ==
    IF otp_type = "" \/ otp_code = "" \/ user_id = None
    THEN OtpRefuse("verify_otp", 400, user_id, otp_type, "Missing required parameters")
    ELSE IF ~isdigit6(otp_code)
    THEN OtpRefuse("verify_otp", 400, user_id, otp_type, "Invalid verification code format")
    ELSE IF ~otp_permitted(s, user_id, otp_type)
    THEN OtpRefuse("verify_otp", 403, user_id, otp_type, "Unauthorized")
    ELSE \E i \in first(get_active_otp(user_id, otp_type)) :
        LET r == OTPService_verify_otp(i, otp_code)
            verified == r.success /\ otp_type = "signup" /\ UserExists(user_id)
            s2 == IF r.success /\ otp_type = "password_reset"
                  THEN [s EXCEPT !.password_reset_verified = TRUE,
                                 !.password_reset_user_id = user_id]
                  ELSE s
        IN
        IF verified
        THEN /\ Cardinality(in_flight({"mark_verified"})) < MaxRequests
             /\ otps' = r.table
             /\ requests' = requests \cup {[s |-> s, user_id |-> user_id, pc |-> "mark_verified"]}
             /\ UNCHANGED <<companies, users, expenses, approvals, flows, rules, sessions, now,
                            resp, rootVars>>
        ELSE /\ otps' = r.table
             /\ sessions' = IF r.success THEN sessions \cup {s2} ELSE sessions
             /\ OtpRespond("verify_otp", 200, user_id, otp_type, r.success, r.message, r.remaining)
             /\ UNCHANGED <<companies, users, expenses, approvals, flows, rules, now, rootVars, requests>>

\* otp.verify_otp, second commit and answer (routes.py 151-164): the user of the
\* accepted signup code is marked verified and pending_user_id leaves the session
verify_otp_mark_verified(r) ==
    /\ r \in requests /\ r.pc = "mark_verified"
    /\ users' = [users EXCEPT ![r.user_id].is_email_verified = TRUE]
    /\ sessions' = sessions \cup {[r.s EXCEPT !.pending_user_id = None]}
    /\ requests' = requests \ {r}
    /\ OtpRespond("verify_otp", 200, r.user_id, "signup", TRUE, "Verification successful", 0)
    /\ UNCHANGED <<companies, expenses, approvals, flows, rules, otps, now, rootVars>>

\* OTPService.resend_otp for the row get_active_otp returned (None: no row):
\* success, message and the table afterwards
OTPService_resend_otp(user_id, otp_type, i, code, email_sent) ==
    IF ~UserExists(user_id)
    THEN [success |-> FALSE, message |-> "User not found", table |-> otps]
    ELSE IF resend_too_soon(i)
    THEN [success |-> FALSE, message |-> "Please wait before requesting a new code", table |-> otps]
    ELSE [success |-> email_sent,
          message |-> mail_message(email_sent),
          table |-> generate_and_send_otp(user_id, otp_type, users[user_id].email, code)]

\* otp.resend_otp (POST) up to the commit of the new code; a refusal is answered
\* at once.  code: the OTP drawn
resend_otp(s, user_id, otp_type, code) ==
    IF otp_type = "" \/ user_id = None
    THEN OtpRefuse("resend_otp", 400, user_id, otp_type, "Missing required parameters")
    ELSE IF ~otp_permitted(s, user_id, otp_type)
    THEN OtpRefuse("resend_otp", 403, user_id, otp_type, "Unauthorized")
    ELSE \E i \in first(get_active_otp(user_id, otp_type)) :
        LET r == OTPService_resend_otp(user_id, otp_type, i, code, TRUE) IN
        IF r.table = otps
        THEN OtpRefuse("resend_otp", 200, user_id, otp_type, r.message)
        ELSE
            /\ Len(otps) < MaxOtps
            /\ otps' = r.table
            /\ await_mail([user_id |-> user_id, otp_type |-> otp_type,
                           pc |-> "resend_otp.mail"])
            /\ UNCHANGED <<companies, users, expenses, approvals, flows, rules, sessions, now,
                           resp, rootVars>>

\* otp.resend_otp, the answer (routes.py 203-206) once send_otp_email has
\* returned email_sent
resend_otp_answer(r, email_sent) ==
    /\ r \in requests /\ r.pc = "resend_otp.mail"
    /\ requests' = requests \ {r}
    /\ OtpRespond("resend_otp", 200, r.user_id, r.otp_type, email_sent, mail_message(email_sent), 0)
    /\ UNCHANGED <<companies, users, expenses, approvals, flows, rules, otps, sessions, now,
                   rootVars>>

\* otp.otp_status (GET)
otp_status(s, user_id, otp_type) ==
    IF ~otp_permitted(s, user_id, otp_type)
    THEN /\ Respond("otp_status", 403, None, [otp_type |-> "", success |-> FALSE])
         /\ UNCHANGED <<companies, users, expenses, approvals, flows, rules, otps, sessions, now, rootVars, requests>>
    ELSE \E i \in first(get_active_otp(user_id, otp_type)) :
        /\ Respond("otp_status", 200, user_id,
                [otp_type |-> otp_type, success |-> TRUE, status |-> get_otp_status(i)])
        /\ UNCHANGED <<companies, users, expenses, approvals, flows, rules, otps, sessions, now, rootVars, requests>>

\* OTPService.cleanup_expired_otps.  The route otp.cleanup_expired refuses every
\* caller (its role test compares a UserRole with 'admin'); the service is what a
\* maintenance job calls.
cleanup_expired_otps ==
    /\ otps' = cleanup_expired
    /\ Respond("cleanup_expired_otps", 0, None, <<Len(otps) - Len(cleanup_expired)>>)
    /\ UNCHANGED <<companies, users, expenses, approvals, flows, rules, sessions, now, rootVars, requests>>

\* ================================================= root variant (src/*.py)
\* caller is the id of the user who is logged in, None when nobody is: the
\* expenses blueprint resolves it from session["user_id"], the admin and manager
\* blueprints ask flask_login.  src/app.py does not decide how the blueprints are
\* hosted: it sets up no LoginManager and it cannot be imported as it stands
\* (auth/admin_routes.py imports RoleEnum from database.models, expenses/routes.py
\* imports send_notification_email from auth.utils, and neither name exists), so
\* the views are modelled as written, hosted with a LoginManager or without one.
RootUserExists(uid) == uid \in 1..Len(rootUsers)

RootRespond(op, status, id, msg) ==
    /\ Respond(op, status, id, <<msg>>)
    /\ UNCHANGED appState

RootRefuse(op, status, msg) ==
    /\ RootRespond(op, status, None, msg)
    /\ UNCHANGED rootVars

\* flask_login.login_required in the application that hosts the root blueprints.
\* create_app of src/app.py (22-46) sets up no LoginManager: resolving
\* current_user raises AttributeError, whoever calls (500).  The views of
\* src/admin/routes.py and src/manager/routes.py are written for an application
\* that logs its users in through flask_login (they read current_user.role and
\* current_user.company_id); that application and its login are not in src, only
\* these callers are.  It is modelled from the specification ("managers
\* approve/reject them, and admins configure users, approval flows, and approval
\* rules"): with rootLoginManager an existing user is logged in and reaches the
\* next decorator (0), any other caller is answered 401 (no login_view is named).
root_login_required(caller) ==
    IF ~rootLoginManager THEN 500
    ELSE IF ~RootUserExists(caller) THEN 401
    ELSE 0

\* admin.admin_required of src/admin/routes.py behind @login_required: 0 when the
\* view runs.  (src/app.py names the admin blueprint of blueprints/admin/routes.py
\* instead, a module that cannot be imported: it needs RoleEnum.)
admin_required(caller) ==
    IF root_login_required(caller) # 0 THEN root_login_required(caller)
    ELSE IF rootUsers[caller].role # "Admin" THEN 302
    ELSE 0

\* manager.manager_required behind @login_required: 0 when the view runs
manager_required(caller) ==
    IF root_login_required(caller) # 0 THEN root_login_required(caller)
    ELSE IF ~(rootUsers[caller].role = "Manager" \/ rootUsers[caller].is_manager_approver) THEN 302
    ELSE 0

\* The answer of a view its decorators did not let run
RootDenied(op, status, msg) ==
    RootRefuse(op, status, IF status = 500 THEN "Internal Server Error"
                           ELSE IF status = 401 THEN "Unauthorized" ELSE msg)

\* The sequence without its i-th element
RemoveAt(seq, i) == SubSeq(seq, 1, i - 1) \o SubSeq(seq, i + 1, Len(seq))

\* auth.signup (POST) of the root variant with a valid form, up to send_otp_email:
\* the email is looked up in lower case, the company and its Admin are added to
\* the session, not committed, and the view waits on the mail server
root_signup(email) ==
    IF \E i \in 1..Len(rootUsers) : rootUsers[i].email = lower(email)
    THEN RootRefuse("root_signup", 302, "Email already registered. Please log in.")
    ELSE
        /\ Len(rootRequests) < MaxRootRequests
        /\ rootRequests' = Append(rootRequests, lower(email))
        /\ UNCHANGED <<appState, resp, rootCompanies, rootUsers, rootExpenses, rootFlows,
                       rootRules, rootHistory, rootLoginManager, rootNotices>>

\* auth.signup from the answer of the mail server on.  email_sent: send_otp_email
\* did not raise.  The commit inserts the company and its Admin, and fails on the
\* unique email when a signup that ran meanwhile registered it
root_signup_commit(i, email_sent) ==
    /\ i \in 1..Len(rootRequests)
    /\ rootRequests' = RemoveAt(rootRequests, i)
    /\ IF ~email_sent
       THEN /\ RootRespond("root_signup", 302, None, "We couldn't send the verification email.")
            /\ UNCHANGED <<rootCompanies, rootUsers, rootExpenses, rootFlows, rootRules, rootHistory, rootLoginManager, rootNotices>>
       ELSE IF \E u \in 1..Len(rootUsers) : rootUsers[u].email = rootRequests[i]
       THEN /\ RootRespond("root_signup", 500, None, "IntegrityError")
            /\ UNCHANGED <<rootCompanies, rootUsers, rootExpenses, rootFlows, rootRules, rootHistory, rootLoginManager, rootNotices>>
       ELSE
            /\ Len(rootUsers) < MaxRootUsers
            /\ rootCompanies' = rootCompanies + 1
            /\ rootUsers' = Append(rootUsers,
                    [email |-> rootRequests[i], role |-> "Admin", company_id |-> rootCompanies + 1,
                     is_manager_approver |-> FALSE, manager_id |-> None])
            /\ RootRespond("root_signup", 302, Len(rootUsers) + 1, "Account created!")
            /\ UNCHANGED <<rootExpenses, rootFlows, rootRules, rootHistory, rootLoginManager, rootNotices>>

\* admin.create_user (POST) of the root variant
root_create_user(caller, email, role, is_manager, manager_id) ==
    IF admin_required(caller) # 0
    THEN RootDenied("root_create_user", admin_required(caller), "Access denied. Admin privileges required.")
    ELSE IF email = ""
    THEN RootRefuse("root_create_user", 302, "Name and email are required.")
    ELSE IF \E i \in 1..Len(rootUsers) : rootUsers[i].email = email
    THEN RootRefuse("root_create_user", 302, "Email already exists.")
    ELSE
        /\ Len(rootUsers) < MaxRootUsers
        /\ rootUsers' = Append(rootUsers,
                [email |-> email, role |-> role, company_id |-> rootUsers[caller].company_id,
                 is_manager_approver |-> is_manager, manager_id |-> manager_id])
        /\ RootRespond("root_create_user", 302, Len(rootUsers) + 1, "User created successfully.")
        /\ UNCHANGED <<rootCompanies, rootExpenses, rootFlows, rootRules, rootHistory, rootRequests, rootLoginManager, rootNotices>>

\* admin.create_approval_flow (POST) of the root variant
root_create_approval_flow(caller, step_number, approver_role, approver_id, sequence_order) ==
    IF admin_required(caller) # 0
    THEN RootDenied("root_create_approval_flow", admin_required(caller),
                    "Access denied. Admin privileges required.")
    ELSE IF step_number = 0 \/ sequence_order = 0
    THEN RootRefuse("root_create_approval_flow", 302, "Step number and sequence order are required.")
    ELSE IF approver_role = "" /\ approver_id = None
    THEN RootRefuse("root_create_approval_flow", 302,
                    "Either approver role or specific approver must be selected.")
    ELSE
        /\ Len(rootFlows) < MaxRootFlows
        /\ rootFlows' = Append(rootFlows,
                [company_id |-> rootUsers[caller].company_id, step_number |-> step_number,
                 approver_role |-> approver_role, approver_id |-> approver_id,
                 sequence_order |-> sequence_order])
        /\ RootRespond("root_create_approval_flow", 302, Len(rootFlows) + 1,
                       "Approval flow created successfully.")
        /\ UNCHANGED <<rootCompanies, rootUsers, rootExpenses, rootRules, rootHistory, rootRequests, rootLoginManager, rootNotices>>

\* admin.create_approval_rule (POST) of the root variant.  threshold_percent 0
\* and specific_approver_id None stand for fields left empty
root_create_approval_rule(caller, rule_type, threshold_percent, specific_approver_id, hybrid_logic) ==
    IF admin_required(caller) # 0
    THEN RootDenied("root_create_approval_rule", admin_required(caller),
                    "Access denied. Admin privileges required.")
    ELSE IF rule_type = ""
    THEN RootRefuse("root_create_approval_rule", 302, "Rule type is required.")
    ELSE IF rule_type = "percentage" /\ threshold_percent = 0
    THEN RootRefuse("root_create_approval_rule", 302,
                    "Threshold percentage is required for percentage-based rules.")
    ELSE IF rule_type = "specific" /\ specific_approver_id = None
    THEN RootRefuse("root_create_approval_rule", 302,
                    "Specific approver is required for specific approver rules.")
    ELSE IF rule_type = "hybrid" /\ hybrid_logic = ""
    THEN RootRefuse("root_create_approval_rule", 302, "Hybrid logic is required for hybrid rules.")
    ELSE
        /\ Len(rootRules) < MaxRootRules
        /\ rootRules' = Append(rootRules,
                [company_id |-> rootUsers[caller].company_id, rule_type |-> rule_type,
                 threshold_percent |-> IF rule_type \in {"percentage", "hybrid"}
                                       THEN threshold_percent ELSE 0,
                 specific_approver_id |-> specific_approver_id])
        /\ RootRespond("root_create_approval_rule", 302, Len(rootRules) + 1,
                       "Approval rule created successfully.")
        /\ UNCHANGED <<rootCompanies, rootUsers, rootExpenses, rootFlows, rootHistory, rootRequests, rootLoginManager, rootNotices>>

\* The ApprovalFlow rows of a company
CompanyFlows(company_id) == {f \in 1..Len(rootFlows) : rootFlows[f].company_id = company_id}

\* .order_by(ApprovalFlow.sequence_order).first() among the rows given
FirstBySequence(rows) ==
    {f \in rows : \A g \in rows : rootFlows[f].sequence_order <= rootFlows[g].sequence_order}

\* The "create or get a simple manager approval flow" step of
\* _assign_approval_workflow: the ids of the flows it may return, the id past the
\* table for the row it creates
ManagerFlow(user) ==
    LET have == {f \in CompanyFlows(user.company_id) :
                    /\ rootFlows[f].step_number = 1
                    /\ rootFlows[f].approver_id = user.manager_id}
    IN IF have = {} THEN {Len(rootFlows) + 1} ELSE have

\* The exception a Decimal multiplied by a float raises, where a flow id is expected
TypeError == 0 - 1

\* What rule r of the loop in _assign_approval_workflow returns: the flows it
\* may pick, empty when the loop goes on to the next rule, TypeError when it raises
RuleFlows(r, amount, user) ==
    LET mine == CompanyFlows(user.company_id)
    IN CASE r.rule_type = "percentage" ->
              \* Decimal('1000.00') * (rule.threshold_percent / 100), a product of a
              \* Decimal and a float, is computed before amount is looked at
              IF r.threshold_percent # 0 THEN {TypeError} ELSE {}
         [] r.rule_type = "specific" ->
              IF r.specific_approver_id # None
              THEN {f \in mine : rootFlows[f].approver_id = r.specific_approver_id} ELSE {}
         [] r.rule_type = "hybrid" ->
              IF user.manager_id # None
              THEN {f \in mine : rootFlows[f].approver_id = user.manager_id} ELSE {}
         [] OTHER -> {}

\* expenses._assign_approval_workflow: the ids of the flows it may return (the id
\* past the table: a manager flow it creates; None: no flow, status PENDING;
\* TypeError: the exception it raises)
_assign_approval_workflow(amount, user) ==
    LET mine == {r \in 1..Len(rootRules) : rootRules[r].company_id = user.company_id}
        hits == {r \in mine : RuleFlows(rootRules[r], amount, user) # {}}
    IN IF hits # {}
       THEN \* the first rule, in the order the query lists them, that finds a flow
            UNION {RuleFlows(rootRules[r], amount, user) :
                        r \in {h \in hits : \A g \in hits : h <= g}}
       ELSE IF user.manager_id # None THEN ManagerFlow(user)
       ELSE {None}

\* expenses.submit_expense (POST) of the root variant.  valid: the form validates
root_submit_expense(caller, amount, valid) ==
    IF ~RootUserExists(caller)
    THEN RootRefuse("root_submit_expense", 302, "Please log in to access expenses.")
    ELSE IF ~valid
    THEN RootRefuse("root_submit_expense", 200, "form")
    ELSE \E f \in _assign_approval_workflow(amount, rootUsers[caller]) :
        LET user == rootUsers[caller]
            created == [company_id |-> user.company_id, step_number |-> 1, approver_role |-> "",
                        approver_id |-> user.manager_id, sequence_order |-> 1]
            creates == f > Len(rootFlows)
            flow == IF creates THEN created ELSE rootFlows[f]
        IN
        IF f = TypeError
        THEN RootRefuse("root_submit_expense", 500, "TypeError")
        ELSE
        /\ Len(rootExpenses) < MaxRootExpenses
        /\ creates => Len(rootFlows) < MaxRootFlows
        /\ rootFlows' = IF creates THEN Append(rootFlows, created) ELSE rootFlows
        /\ rootExpenses' = Append(rootExpenses,
                IF f = None
                THEN [company_id |-> user.company_id, submitted_by_user_id |-> caller,
                      amount |-> amount, status |-> "PENDING", approval_flow_id |-> None,
                      current_approver_step |-> 1, approved_by_user_id |-> None,
                      decided_at |-> <<>>, manager_notes |-> <<>>]
                ELSE [company_id |-> user.company_id, submitted_by_user_id |-> caller,
                      amount |-> amount, status |-> "IN_PROGRESS", approval_flow_id |-> f,
                      current_approver_step |-> flow.step_number, approved_by_user_id |-> None,
                      decided_at |-> <<>>, manager_notes |-> <<>>])
        /\ RootRespond("root_submit_expense", 302, Len(rootExpenses) + 1,
                       "Expense submitted for approval.")
        /\ UNCHANGED <<rootCompanies, rootUsers, rootRules, rootHistory, rootRequests, rootLoginManager, rootNotices>>

\* The permission test of manager.approve_expense and manager.reject_expense
may_decide(caller, expense) ==
    \/ rootUsers[expense.submitted_by_user_id].manager_id = caller
    \/ /\ expense.approval_flow_id # None
       /\ rootFlows[expense.approval_flow_id].approver_id = caller

\* Expense.mark_approved.  A nullable column is the empty tuple when NULL and the
\* one-element tuple of its value otherwise
mark_approved(expense, approver, notes) ==
    [expense EXCEPT !.status = "APPROVED", !.approved_by_user_id = approver,
                    !.decided_at = <<now>>, !.manager_notes = notes]

\* Expense.mark_rejected
mark_rejected(expense, approver, notes) ==
    [expense EXCEPT !.status = "REJECTED", !.approved_by_user_id = approver,
                    !.decided_at = <<now>>, !.manager_notes = notes]

\* A lookup that takes the expense's current step for a later one
next_flow_from_current(expense) ==
    FirstBySequence({f \in CompanyFlows(expense.company_id) :
        rootFlows[f].sequence_order >= expense.current_approver_step})

\* The next_flow query of manager.approve_expense: the rows .first() may return
next_flow(expense) ==
    FirstBySequence({f \in CompanyFlows(expense.company_id) :
        rootFlows[f].sequence_order > expense.current_approver_step})

\* manager.approve_expense (POST) of the root variant
root_approve_expense(caller, expense_id) ==
    IF manager_required(caller) # 0
    THEN RootDenied("root_approve_expense", manager_required(caller),
                    "Access denied. Manager privileges required.")
    ELSE IF expense_id \notin 1..Len(rootExpenses)
    THEN RootRefuse("root_approve_expense", 404, "Not Found")
    ELSE IF ~may_decide(caller, rootExpenses[expense_id])
    THEN RootRefuse("root_approve_expense", 302, "You do not have permission to approve this expense.")
    ELSE
        LET expense == rootExpenses[expense_id] IN
        /\ Len(rootHistory) < MaxRootHistory
        /\ rootHistory' = Append(rootHistory,
                [expense_id |-> expense_id, approver_id |-> caller, action |-> "Approved"])
        /\ IF expense.approval_flow_id # None /\ next_flow(expense) # {}
           THEN \E n \in next_flow(expense) :
                rootExpenses' = [rootExpenses EXCEPT ![expense_id] =
                    [expense EXCEPT !.current_approver_step = rootFlows[n].step_number,
                                    !.status = "IN_PROGRESS"]]
           \* comment is request.form.get('comment', ''), the form sent without one
           ELSE rootExpenses' = [rootExpenses EXCEPT ![expense_id] = mark_approved(expense, caller, <<"">>)]
        /\ RootRespond("root_approve_expense", 302, expense_id, "Expense approved successfully.")
        /\ UNCHANGED <<rootCompanies, rootUsers, rootFlows, rootRules, rootRequests, rootLoginManager, rootNotices>>

\* manager.reject_expense (POST) of the root variant
root_reject_expense(caller, expense_id, comment) ==
    IF manager_required(caller) # 0
    THEN RootDenied("root_reject_expense", manager_required(caller),
                    "Access denied. Manager privileges required.")
    ELSE IF expense_id \notin 1..Len(rootExpenses)
    THEN RootRefuse("root_reject_expense", 404, "Not Found")
    ELSE IF ~may_decide(caller, rootExpenses[expense_id])
    THEN RootRefuse("root_reject_expense", 302, "You do not have permission to reject this expense.")
    ELSE IF comment = ""
    THEN RootRefuse("root_reject_expense", 302, "A comment is required when rejecting an expense.")
    ELSE
        /\ Len(rootHistory) < MaxRootHistory
        /\ rootHistory' = Append(rootHistory,
                [expense_id |-> expense_id, approver_id |-> caller, action |-> "Rejected"])
        /\ rootExpenses' = [rootExpenses EXCEPT ![expense_id] = mark_rejected(@, caller, <<comment>>)]
        /\ RootRespond("root_reject_expense", 302, expense_id, "Expense rejected successfully.")
        /\ UNCHANGED <<rootCompanies, rootUsers, rootFlows, rootRules, rootRequests, rootLoginManager, rootNotices>>

\* str.strip() on the notes offered
strip(notes) == IF notes = " ok " THEN "ok" ELSE notes

\* A lookup by id alone
company_expense_of_any(expense_id, company_id) ==
    {e \in 1..Len(rootExpenses) : e = expense_id}

\* Expense.query.filter_by(id=expense_id, company_id=user.company_id).first():
\* the rows it matches
company_expense(expense_id, company_id) ==
    {e \in 1..Len(rootExpenses) : e = expense_id /\ rootExpenses[e].company_id = company_id}

\* expenses.manager_expense_detail (POST) up to the commit of the decision (line
\* 650).  caller: the user session["user_id"] resolves; decision and notes: the
\* fields of ExpenseDecisionForm.  The submitter of an expense exists and has an
\* email: the view goes on to send the notification
manager_expense_detail(caller, expense_id, decision, notes_in) ==
    LET notes == IF notes_in # "" THEN <<strip(notes_in)>> ELSE <<>> IN
    IF ~RootUserExists(caller)
    THEN RootRefuse("manager_expense_detail", 302, "Please log in to access expenses.")
    ELSE IF rootUsers[caller].role \notin {"Manager", "Admin"}
    THEN RootRefuse("manager_expense_detail", 302, "You do not have permission to approve expenses.")
    ELSE IF company_expense(expense_id, rootUsers[caller].company_id) = {}
    THEN RootRefuse("manager_expense_detail", 302, "Expense not found.")
    ELSE IF decision \notin {"approve", "reject"}
    THEN RootRefuse("manager_expense_detail", 200, "form")
    ELSE \E e \in company_expense(expense_id, rootUsers[caller].company_id) :
        /\ rootExpenses' = [rootExpenses EXCEPT ![e] =
                IF decision = "approve" THEN mark_approved(@, caller, notes)
                ELSE mark_rejected(@, caller, notes)]
        /\ Cardinality(rootNotices) < MaxRequests
        /\ [expense_id |-> e, decision |-> decision] \notin rootNotices
        /\ rootNotices' = rootNotices \cup {[expense_id |-> e, decision |-> decision]}
        /\ UNCHANGED <<appState, resp, rootCompanies, rootUsers, rootFlows, rootRules,
                       rootHistory, rootRequests, rootLoginManager>>

\* expenses.manager_expense_detail, the answer (lines 652-678) once
\* send_notification_email has returned or raised OTPDeliveryError, which the view
\* catches: the redirect with the message flashed before the commit.  The function
\* is imported from auth.utils, which does not define it; it is taken to deliver
\* or to fail as _send_via_smtp of that module does.
manager_expense_detail_redirect(n) ==
    /\ n \in rootNotices
    /\ rootNotices' = rootNotices \ {n}
    /\ RootRespond("manager_expense_detail", 302, n.expense_id,
                   IF n.decision = "approve" THEN "Expense approved." ELSE "Expense rejected.")
    /\ UNCHANGED <<rootCompanies, rootUsers, rootExpenses, rootFlows, rootRules, rootHistory,
                   rootRequests, rootLoginManager>>

\* ------------------------------------------------------- specifications
\* The database as created: no rows but the companies, which no route of the
\* app variant can insert (see signup), so they are either absent or seeded.
InitDb ==
    /\ companies \in {{}, CompanyIds}
    /\ users = <<>>
    /\ expenses = <<>>
    /\ approvals = <<>>
    /\ flows = <<>>
    /\ rules = <<>>
    /\ otps = <<>>
    /\ sessions = {}
    /\ now = 0
    /\ requests = {}
    /\ resp = NoResp
    /\ rootCompanies = 0
    /\ rootUsers = <<>>
    /\ rootExpenses = <<>>
    /\ rootFlows = <<>>
    /\ rootRules = <<>>
    /\ rootHistory = <<>>
    /\ rootRequests = <<>>
    /\ rootNotices = {}

\* The application src/app.py builds: no LoginManager
Init == InitDb /\ rootLoginManager = FALSE

\* The root blueprints hosted by src/app.py, without a LoginManager, or by the
\* application the specification describes, in which managers and admins are
\* logged in through flask_login (not in src, see root_login_required)
InitRoot == InitDb /\ rootLoginManager \in BOOLEAN

\* Inputs of the requests.  Emails are offered in a fixed order (the rows of users
\* differ by their ids only), with one spelling in upper case.
EmailOrder == <<"a@x.io", "b@x.io", "c@x.io", "d@x.io", "e@x.io">>
FreshEmail == EmailOrder[IF Len(users) < Len(EmailOrder) THEN Len(users) + 1 ELSE Len(users)]
\* Signup payloads: the complete ones for the given companies and managers, and
\* one of each kind the view rejects before it looks at them
CompleteSignups(roles, companyRefs, managerRefs) ==
    [email : {FreshEmail}, password : Passwords, role : roles,
     company : companyRefs, manager_id : managerRefs, missing : {FALSE}]
SignupPayloads(roles, companyRefs, managerRefs) ==
    CompleteSignups(roles, companyRefs, managerRefs)
        \cup {[email |-> FreshEmail, password |-> "pw", role |-> r.role, company |-> r.company,
               manager_id |-> None, missing |-> r.missing] :
                r \in {[role |-> "", company |-> 1, missing |-> TRUE],
                       [role |-> "ceo", company |-> 1, missing |-> FALSE],
                       [role |-> "", company |-> None, missing |-> FALSE]}}
        \cup {[email |-> "A@x.io", password |-> "pw", role |-> "", company |-> 1,
               manager_id |-> None, missing |-> FALSE]}

ExpensePayloads ==
    {[amount |-> "12.50", date_spent |-> "2025-10-04", missing |-> FALSE],
     [amount |-> "abc", date_spent |-> "2025-10-04", missing |-> FALSE],
     [amount |-> "12.50", date_spent |-> "04/10/2025", missing |-> FALSE],
     [amount |-> "12.50", date_spent |-> "2025-10-04", missing |-> TRUE]}

Cookies == sessions \cup {EmptySession}

\* A signup in flight goes on: its code is created, then its mail is sent or not
\* and the answer leaves
SignupCreateOtp == \E r \in requests : signup_create_otp(r, "100000")
SignupMailSent == \E r \in requests : signup_redirect(r, TRUE)
SignupMailFailed == \E r \in requests : signup_redirect(r, FALSE)
\* An accepted signup code in flight: its user is marked verified
VerifyMarkVerified == \E r \in requests : verify_otp_mark_verified(r)

\* Signups into company 1 whose verification mail is not delivered: the view logs
\* the new user in, which is how a session is obtained without the OTP routes
Signup == \E p \in SignupPayloads({"", "admin", "manager"}, {1}, 0..MaxStaff) :
    /\ Len(users) < MaxStaff
    /\ signup(EmptySession, p)
SubmitExpense == \E s \in Cookies, p \in ExpensePayloads : submit_expense(s, p)
ApproveExpense == \E s \in Cookies, e \in 1..MaxExpenses : approve_expense(s, e, "ok")
RejectExpense == \E s \in Cookies, e \in 1..MaxExpenses : reject_expense(s, e, "no")

Next ==
    \/ Signup
    \/ SignupCreateOtp
    \/ SignupMailFailed
    \/ SubmitExpense
    \/ ApproveExpense
    \/ RejectExpense

Spec == Init /\ [][Next]_vars

\* Signups whose manager, when one is named, is the user created just before
ConfigSignup == \E p \in CompleteSignups({"", "admin", "manager"}, {1}, {None, Len(users)}) :
    signup(EmptySession, p)
ConfigSubmit == \E s \in Cookies :
    submit_expense(s, [amount |-> "12.50", date_spent |-> "2025-10-04", missing |-> FALSE])
CreateOrUpdateRule == \E s \in Cookies, t \in {"specific", "bogus"} :
    create_or_update_rule(s, t, 1)
CreateOrUpdateFlow == \E s \in Cookies, n \in {"travel", ""} :
    create_or_update_flow(s, n, [is_list |-> TRUE, items |-> <<"finance", "manager">>], FALSE)

NextConfig ==
    \/ ConfigSignup
    \/ SignupCreateOtp
    \/ SignupMailFailed
    \/ ConfigSubmit
    \/ ApproveExpense
    \/ RejectExpense
    \/ CreateOrUpdateRule
    \/ CreateOrUpdateFlow

\* The app variant with an administrator configuring approval rules and flows
SpecConfig == Init /\ [][NextConfig]_vars

\* Administrators of every company saving approval flows
FlowSignup == \E p \in SignupPayloads({"admin"}, {1, NumCompanies}, {None}) :
    /\ Len(users) < MaxAdmins
    /\ signup(EmptySession, p)
SaveFlow == \E s \in Cookies, n \in FlowNames \cup {""}, st \in StepsInputs :
    /\ Len(st.items) # 1
    /\ create_or_update_flow(s, n, st, TRUE)

NextFlow ==
    \/ FlowSignup
    \/ SignupCreateOtp
    \/ SignupMailFailed
    \/ SaveFlow

SpecFlow == Init /\ [][NextFlow]_vars

\* New accounts of company 1, their verification mail delivered
OtpSignup == \E p \in CompleteSignups({""}, {1}, {None}) :
    /\ Len(users) < MaxOtpUsers
    /\ Len(otps) < MaxOtps
    /\ signup(EmptySession, p)
SendOtp == \E s \in Cookies, u \in 0..MaxOtpUsers, t \in OtpTypes \cup {"bogus"} :
    send_otp(s, u, t, "100000")
\* Guesses at a code that has been guessed at fewer than MaxGuesses times
VerifyOtp == \E s \in Cookies, u \in 1..MaxOtpUsers, t \in OtpTypes, c \in Codes \cup {"12ab"} :
    /\ \A i \in get_active_otp(u, t) : otps[i].attempts < MaxGuesses
    /\ verify_otp(s, u, t, c)
ResendOtp == \E s \in Cookies, u \in 1..MaxOtpUsers, t \in OtpTypes :
    resend_otp(s, u, t, "999999")
CleanupExpiredOtps == cleanup_expired_otps
\* The clock advances
Tick ==
    /\ now + TickMinutes <= MaxTime
    /\ now' = now + TickMinutes
    /\ UNCHANGED <<companies, users, expenses, approvals, flows, rules, otps, sessions, resp, rootVars, requests>>

NextOtp ==
    \/ OtpSignup
    \/ SignupCreateOtp
    \/ SignupMailSent
    \/ SendOtp
    \/ \E r \in requests : send_otp_answer(r, TRUE)
    \/ VerifyOtp
    \/ VerifyMarkVerified
    \/ ResendOtp
    \/ \E r \in requests : resend_otp_answer(r, TRUE)
    \/ CleanupExpiredOtps
    \/ Tick

\* Email verification and password-reset codes over time
SpecOtp == Init /\ [][NextOtp]_vars

\* One signup code within its first minutes: guesses, status polls and new codes
AttemptVerify == \E s \in Cookies, c \in Codes : verify_otp(s, 1, "signup", c)

NextAttempts ==
    \/ OtpSignup
    \/ SignupCreateOtp
    \/ SignupMailSent
    \/ \E s \in Cookies, c \in Codes : send_otp(s, 1, "signup", c)
    \/ \E r \in requests : send_otp_answer(r, TRUE)
    \/ AttemptVerify
    \/ VerifyMarkVerified
    \/ \E s \in Cookies : otp_status(s, 1, "signup")

SpecAttempts == Init /\ [][NextAttempts]_vars

\* Two users, each with a code of its own: every cookie guesses at the codes of
\* either user and of either type, as often as it likes, while the clock advances
TwoUserSignup == \E p \in CompleteSignups({""}, {1}, {None}) :
    /\ Len(users) < MaxVerifyUsers
    /\ Len(otps) < MaxOtps
    /\ signup(EmptySession, p)
\* The codes drawn for the two users differ
VerifyCreateOtp == \E r \in requests :
    signup_create_otp(r, IF r.user_id = 1 THEN "100000" ELSE "999999")
VerifySendReset == \E s \in Cookies, u \in 1..MaxVerifyUsers :
    send_otp(s, u, "password_reset", IF u = 1 THEN "100000" ELSE "999999")
VerifyAny == \E s \in Cookies, u \in 1..MaxVerifyUsers, t \in OtpTypes, c \in Codes :
    verify_otp(s, u, t, c)
\* The clock passes the end of the validity of a code created now
CodesExpire ==
    /\ now + VALIDITY_MINUTES + TickMinutes <= MaxTime
    /\ now' = now + VALIDITY_MINUTES + TickMinutes
    /\ UNCHANGED <<companies, users, expenses, approvals, flows, rules, otps, sessions, resp,
                   rootVars, requests>>

NextVerify ==
    \/ TwoUserSignup
    \/ VerifyCreateOtp
    \/ SignupMailSent
    \/ VerifySendReset
    \/ \E r \in requests : send_otp_answer(r, TRUE)
    \/ VerifyAny
    \/ VerifyMarkVerified
    \/ CodesExpire

SpecVerify == Init /\ [][NextVerify]_vars

\* The root variant: Admins sign up and ask for users, approval flows and rules;
\* expenses are submitted and decisions are asked for
RootEmail == EmailOrder[IF Len(rootUsers) < Len(EmailOrder) THEN Len(rootUsers) + 1 ELSE Len(rootUsers)]
RootCallers == 0..Len(rootUsers)
\* The mail server answers a signup in flight
RootSignupMailSent == \E i \in 1..Len(rootRequests) : root_signup_commit(i, TRUE)
RootSignupMailFailed == \E i \in 1..Len(rootRequests) : root_signup_commit(i, FALSE)
\* New users: a manager, or an employee reporting to the user created last
RootCreateUser == \E c \in RootCallers, k \in {<<"Manager", None>>, <<"Employee", Len(rootUsers)>>} :
    root_create_user(c, RootEmail, k[1], FALSE, k[2])
\* A second approval step, approved by the user created last
RootCreateFlow == \E c \in RootCallers : root_create_approval_flow(c, 2, "", Len(rootUsers), 2)
RootSubmit == \E c \in RootCallers : root_submit_expense(c, 50, TRUE)
RootApprove == \E c \in RootCallers, e \in 1..MaxRootExpenses : root_approve_expense(c, e)
\* Decisions taken on the expense detail page
Decisions == {"approve", "reject", ""}
NotesInputs == {"", " ok "}
ManagerExpenseDetail ==
    \E c \in RootCallers, e \in 1..MaxRootExpenses, d \in Decisions, n \in NotesInputs :
        manager_expense_detail(c, e, d, n)

NextRoot ==
    \/ \E e \in {RootEmail, "a@x.io", "A@x.io"} : rootCompanies < MaxRootCompanies /\ root_signup(e)
    \/ RootSignupMailSent
    \/ RootSignupMailFailed
    \/ RootCreateUser
    \/ RootCreateFlow
    \/ \E c \in RootCallers, t \in {"percentage", "specific"} :
            root_create_approval_rule(c, t, 1, Len(rootUsers), "")
    \/ RootSubmit
    \/ RootApprove
    \/ \E c \in RootCallers, e \in 1..MaxRootExpenses : root_reject_expense(c, e, "no")

SpecRoot == InitRoot /\ [][NextRoot]_vars

\* Approvals in both variants: a manager and an employee of the app variant next
\* to a root-variant company whose Admin asks for a second approval step
StaffSignup == \E p \in CompleteSignups({"manager"}, {1}, {None})
                        \cup CompleteSignups({""}, {1}, {Len(users)}) :
    /\ Len(users) < MaxStaff
    /\ signup(EmptySession, p)
RootFirstSignup ==
    /\ rootCompanies < MaxRootCompanies
    /\ rootRequests = <<>>
    /\ root_signup(RootEmail)
\* An approve on the expense detail page
DetailApprove == \E c \in RootCallers, e \in 1..MaxRootExpenses :
    manager_expense_detail(c, e, "approve", "")

NextApproval ==
    \/ StaffSignup
    \/ SignupCreateOtp
    \/ SignupMailFailed
    \/ ConfigSubmit
    \/ ApproveExpense
    \/ RootFirstSignup
    \/ RootSignupMailSent
    \/ RootCreateUser
    \/ RootCreateFlow
    \/ RootSubmit
    \/ RootApprove
    \/ DetailApprove
    \/ \E n \in rootNotices : manager_expense_detail_redirect(n)

SpecApproval == InitRoot /\ [][NextApproval]_vars

\* New codes requested over time, their mail delivered or not
NextResend ==
    \/ OtpSignup
    \/ SignupCreateOtp
    \/ SignupMailSent
    \/ \E s \in Cookies, u \in 1..MaxOtpUsers, t \in OtpTypes : resend_otp(s, u, t, "999999")
    \/ \E r \in requests, sent \in BOOLEAN : resend_otp_answer(r, sent)
    \/ AttemptVerify
    \/ VerifyMarkVerified
    \/ Tick

SpecResend == Init /\ [][NextResend]_vars

\* Password resets: an account, reset codes requested, guessed at and used
ResetSignup == \E p \in CompleteSignups({""}, {1}, {None}) :
    /\ Len(users) < MaxOtpUsers
    /\ signup(EmptySession, p)
ForgotPassword == \E s \in Cookies, e \in {"A@x.io", "z@x.io", ""} :
    /\ Len(otps) < MaxResetOtps
    /\ forgot_password(s, e, "999999")
VerifyReset == \E s \in Cookies, u \in 1..MaxOtpUsers, c \in Codes :
    /\ \A i \in get_active_otp(u, "password_reset") : otps[i].attempts < MaxGuesses
    /\ verify_otp(s, u, "password_reset", c)
ResetPassword == \E s \in Cookies, n \in {"new", "newer", ""}, c \in {"new", "newer"} :
    reset_password(s, n, c)

NextReset ==
    \/ ResetSignup
    \/ SignupCreateOtp
    \/ SignupMailSent
    \/ ForgotPassword
    \/ \E r \in requests, sent \in BOOLEAN : forgot_password_answer(r, sent)
    \/ VerifyReset
    \/ ResetPassword

SpecReset == Init /\ [][NextReset]_vars

\* Accounts signing up, their verification mail delivered or not, verifying their
\* address and logging in
LoginSignup == \E p \in CompleteSignups({""}, {1}, {None}) :
    /\ Len(users) < MaxStaff
    /\ Len(otps) < MaxOtps
    /\ signup(EmptySession, p)
VerifySignup == \E s \in Cookies, u \in 1..MaxStaff, c \in Codes :
    /\ \A i \in get_active_otp(u, "signup") : otps[i].attempts < MaxGuesses
    /\ verify_otp(s, u, "signup", c)
Login == \E s \in Cookies, e \in {"A@x.io", "b@x.io", "z@x.io", ""}, pw \in {"pw", "bad"} :
    /\ Len(otps) < MaxOtps
    /\ login(s, e, pw, "999999")

NextLogin ==
    \/ LoginSignup
    \/ SignupCreateOtp
    \/ SignupMailSent
    \/ SignupMailFailed
    \/ VerifySignup
    \/ VerifyMarkVerified
    \/ Login
    \/ \E r \in requests : login_redirect(r)

SpecLogin == Init /\ [][NextLogin]_vars

\* One account: verified, logged in, asking for new codes and editing its profile
VerifyAccount == \E s \in Cookies, c \in Codes :
    /\ \A i \in get_active_otp(1, "signup") : otps[i].attempts < MaxGuesses
    /\ verify_otp(s, 1, "signup", c)
AccountLogin == \E s \in Cookies, pw \in {"pw", "new"} :
    /\ Len(otps) < MaxOtps
    /\ login(s, "a@x.io", pw, "999999")
Profile == \E s \in Cookies, e \in {"b@x.io", "a@x.io", ""}, pws \in {<<"", "", "">>, <<"pw", "new", "new">>,
                                                                <<"bad", "new", "new">>, <<"pw", "new", "old">>} :
    auth_profile(s, e, pws[1], pws[2], pws[3])

NextProfile ==
    \/ ResetSignup
    \/ SignupCreateOtp
    \/ SignupMailSent
    \/ VerifyAccount
    \/ VerifyMarkVerified
    \/ AccountLogin
    \/ \E r \in requests : login_redirect(r)
    \/ \E s \in Cookies : send_otp(s, 1, "signup", "999999")
    \/ \E r \in requests : send_otp_answer(r, TRUE)
    \/ Profile

SpecProfile == Init /\ [][NextProfile]_vars

\* Signups into every company naming any user id as manager, and administrators
\* creating users
TenantSignup == \E p \in SignupPayloads({"", "admin", "manager"}, CompanyIds, 0..MaxUsers) :
    signup(EmptySession, p)
CreateUserPayloads ==
    [email : {FreshEmail}, role : {"employee", "manager"}, manager_id : 0..MaxUsers, missing : {FALSE}]
        \cup {[email |-> "a@x.io", role |-> "employee", manager_id |-> None, missing |-> FALSE],
               [email |-> FreshEmail, role |-> "ceo", manager_id |-> None, missing |-> FALSE],
               [email |-> FreshEmail, role |-> "employee", manager_id |-> None, missing |-> TRUE]}
CreateUser == \E s \in Cookies, p \in CreateUserPayloads : create_user(s, p)

NextTenancy ==
    \/ TenantSignup
    \/ SignupCreateOtp
    \/ SignupMailFailed
    \/ CreateUser

SpecTenancy == Init /\ [][NextTenancy]_vars

\* Two companies of the root variant, their Admins, and decisions taken on the
\* expense detail page
TenantRootSignup == \E e \in {RootEmail, "A@x.io"} :
    /\ rootCompanies < MaxTenants
    /\ root_signup(e)

NextDetail ==
    \/ TenantRootSignup
    \/ RootSignupMailSent
    \/ RootSignupMailFailed
    \/ RootCreateUser
    \/ RootSubmit
    \/ ManagerExpenseDetail
    \/ \E n \in rootNotices : manager_expense_detail_redirect(n)

SpecDetail == InitRoot /\ [][NextDetail]_vars

\* Two companies: managers and their employees sign up, an administrator tries to
\* create users, expenses are submitted and decided by whoever holds a session
IsolationSignup ==
    \E p \in CompleteSignups({"manager"}, CompanyIds, {None})
              \cup CompleteSignups({""}, CompanyIds, 1..MaxUsers)
              \cup CompleteSignups({"admin"}, {1}, {None}) :
        signup(EmptySession, p)
IsolationCreateUser == \E s \in Cookies, m \in {None, 1} :
    create_user(s, [email |-> FreshEmail, role |-> "employee", manager_id |-> m, missing |-> FALSE])

NextIsolation ==
    \/ IsolationSignup
    \/ SignupCreateOtp
    \/ SignupMailFailed
    \/ IsolationCreateUser
    \/ ConfigSubmit
    \/ ApproveExpense
    \/ RejectExpense

SpecIsolation == Init /\ [][NextIsolation]_vars

\* ------------------------------------------------------------- claims
ProfileManager(uid) == IF users[uid].profile.exists THEN users[uid].profile.manager_id ELSE None
ApprovalsOf(eid) == {a \in 1..Len(approvals) : approvals[a].expense_id = eid}
AnyExpense == [company_id |-> 1, submitter_user_id |-> 1, amount_original |-> "12.50",
               date_spent |-> "2025-10-04", status |-> "PENDING"]

\* C1: next_approver_logic(user, expense) is the manager_id of the user's own
\* employee profile, None when there is no profile or no manager; it is the same
\* for every expense and whatever rules and flows exist, and it is never the
\* manager's own manager unless that is also the user's manager.
C1_SingleHopManager ==
    \A u \in 1..Len(users) :
        /\ \A i \in 0..Len(expenses) :
               next_approver_logic(u, IF i = 0 THEN AnyExpense ELSE expenses[i]) = ProfileManager(u)
        /\ ~users[u].profile.exists => next_approver_logic(u, AnyExpense) = None
        /\ \A a \in 1..Len(approvals) :
               expenses[approvals[a].expense_id].submitter_user_id = u
                   => approvals[a].approver_user_id = ProfileManager(u)

\* An employee whose manager has a different manager of their own has submitted an
\* expense while a rule names yet another approver and a flow is configured.
C1_Witness ==
    \E a \in 1..Len(approvals) :
        LET u == expenses[approvals[a].expense_id].submitter_user_id
            m == ProfileManager(u)
        IN /\ m # None /\ m # u
           /\ ProfileManager(m) \notin {None, m, u}
           /\ approvals[a].approver_user_id = m
           /\ \E r \in 1..Len(rules) : rules[r].specific_approver_id \notin {None, m}
           /\ Len(flows) > 0

\* C3: evaluate_rules answers the placeholder {status: evaluation_pending, entity: id}
\* (the preview of a created rule) and the approver of every expense and the status
\* of every expense are fixed by the submitter's profile and by the decision taken on
\* its approval, whatever rules and flows the company has.
C3_RulesAreNotEvaluated ==
    /\ (resp.op = "create_or_update_rule" /\ resp.status = 201)
            => resp.info = <<[status |-> "evaluation_pending", entity |-> resp.id]>>
    /\ \A a \in 1..Len(approvals) :
        LET e == expenses[approvals[a].expense_id]
        IN /\ approvals[a].approver_user_id = ProfileManager(e.submitter_user_id)
           /\ e.status = approvals[a].status
           /\ e.status \in {"PENDING", "APPROVED", "REJECTED"}

\* A rule naming a specific approver and a flow exist in the company of two
\* expenses: one was approved by the submitter's manager, the other has just been
\* rejected by the submitter's manager (the last request), and neither manager
\* is the approver the rule names.
C3_Witness ==
    /\ resp.op = "reject_expense" /\ resp.status = 200
    /\ \E a, b \in 1..Len(approvals), r \in 1..Len(rules), f \in 1..Len(flows) :
        LET e == expenses[approvals[a].expense_id]
            d == expenses[approvals[b].expense_id]
        IN /\ rules[r].company_id = e.company_id
           /\ flows[f].company_id = e.company_id
           /\ d.company_id = e.company_id
           /\ rules[r].rule_type = "SPECIFIC"
           /\ rules[r].specific_approver_id # approvals[a].approver_user_id
           /\ rules[r].specific_approver_id # approvals[b].approver_user_id
           /\ approvals[a].status = "APPROVED"
           /\ e.status = "APPROVED"
           /\ approvals[b].expense_id = resp.id
           /\ approvals[b].status = "REJECTED"
           /\ d.status = "REJECTED"

\* C5: a successful submit_expense adds one expense (PENDING, the caller as
\* submitter, the caller's company) and one approval for it (step 1, PENDING,
\* approver the manager_id of the submitter's profile, None without one); a request
\* with a missing field, an invalid amount or an invalid date adds nothing.
C5_Submitted(s, p) ==
    LET eid == Len(expenses) + 1
        u == s.user_id
    IN IF resp'.status = 201
       THEN /\ ~p.missing /\ p.amount # "abc" /\ p.date_spent # "04/10/2025"
            /\ UserExists(u) /\ Role(u) = "EMPLOYEE"
            /\ Len(expenses') = eid
            /\ \A i \in 1..Len(expenses) : expenses'[i] = expenses[i]
            /\ expenses'[eid].status = "PENDING"
            /\ expenses'[eid].submitter_user_id = u
            /\ expenses'[eid].company_id = users[u].company_id
            /\ Len(approvals') = Len(approvals) + 1
            /\ \A i \in 1..Len(approvals) : approvals[i].expense_id # eid
            /\ \A i \in 1..Len(approvals) : approvals'[i] = approvals[i]
            /\ LET a == approvals'[Len(approvals')]
               IN /\ a.expense_id = eid
                  /\ a.step_number = 1
                  /\ a.status = "PENDING"
                  /\ a.approver_user_id = ProfileManager(u)
       ELSE UNCHANGED <<expenses, approvals>>

C5_SubmitCreatesOnePendingApproval ==
    [][resp'.op = "submit_expense" => \A s \in Cookies, p \in ExpensePayloads :
        submit_expense(s, p) =>
            /\ C5_Submitted(s, p)
            /\ (p.missing \/ p.amount = "abc" \/ p.date_spent = "04/10/2025")
                    => (resp'.status # 201 /\ UNCHANGED <<expenses, approvals>>)]_vars

\* The last request was a submit refused for its amount, after an employee with a
\* manager has submitted an expense that now awaits that manager.
C5_Witness ==
    /\ resp.op = "submit_expense" /\ resp.status = 400 /\ resp.info = <<"Invalid amount.">>
    /\ \E b \in 1..Len(approvals) :
        /\ approvals[b].approver_user_id # None
        /\ approvals[b].status = "PENDING"
        /\ expenses[approvals[b].expense_id].status = "PENDING"
        /\ approvals[b].approver_user_id = ProfileManager(expenses[approvals[b].expense_id].submitter_user_id)

\* C6: an approve or reject by a manager changes something only when that manager's
\* approval of the expense with the highest step_number is PENDING; otherwise the
\* answer is 404 and approvals and expenses are as before.
C6_HasPending(uid, eid) ==
    \E a \in 1..Len(approvals) :
        /\ approvals[a].expense_id = eid
        /\ approvals[a].approver_user_id = uid
        /\ approvals[a].status = "PENDING"
        /\ \A b \in 1..Len(approvals) :
               (approvals[b].expense_id = eid /\ approvals[b].approver_user_id = uid)
                   => approvals[b].step_number <= approvals[a].step_number

C6_Decision(s, eid, decided, comment) ==
    LET uid == s.user_id
    IN IF UserExists(uid) /\ Role(uid) = "MANAGER" /\ C6_HasPending(uid, eid)
       THEN /\ resp'.status = 200
            /\ expenses'[eid].status = decided
            /\ \E a \in ApprovalsOf(eid) :
                /\ approvals[a].approver_user_id = uid
                /\ approvals'[a].status = decided
                /\ approvals'[a].comment = comment
       ELSE /\ UNCHANGED <<expenses, approvals>>
            /\ (UserExists(uid) /\ Role(uid) = "MANAGER") => resp'.status = 404

C6_DecisionNeedsOwnPendingApproval ==
    [][resp'.op \in {"approve_expense", "reject_expense"} => \A s \in Cookies, e \in 1..MaxExpenses :
        /\ approve_expense(s, e, "ok") => C6_Decision(s, e, "APPROVED", "ok")
        /\ reject_expense(s, e, "no") => C6_Decision(s, e, "REJECTED", "no")]_vars

\* A reject of an expense its manager had already approved was answered 404, and the
\* approval still carries the approval's comment.
C6_Witness ==
    /\ resp.op = "reject_expense" /\ resp.status = 404
    /\ \E a \in 1..Len(approvals) :
        /\ approvals[a].expense_id = resp.id
        /\ approvals[a].status = "APPROVED"
        /\ approvals[a].comment = "ok"
        /\ expenses[resp.id].status = "APPROVED"
        /\ \E s \in sessions : s.user_id = approvals[a].approver_user_id

\* C2: a saved flow holds the given steps, same elements in the same order; a save
\* under a name the admin's company already has replaces that flow's steps and adds
\* no row, so no two flows share company and name; and repeating the save just made
\* changes nothing.
C2_OnePerName ==
    \A f, g \in 1..Len(flows) :
        (flows[f].company_id = flows[g].company_id /\ flows[f].name = flows[g].name) => f = g

C2_Saved(s, n, st, d) ==
    LET c == users[s.user_id].company_id
        had == \E f \in 1..Len(flows) : flows[f].company_id = c /\ flows[f].name = n
    IN resp'.status = 200 =>
        /\ Len(flows') = (IF had THEN Len(flows) ELSE Len(flows) + 1)
        /\ flows'[resp'.id].company_id = c
        /\ flows'[resp'.id].name = n
        /\ flows'[resp'.id].steps = st.items
        /\ \A f \in 1..Len(flows) : f # resp'.id => flows'[f] = flows[f]

C2_Repeated(s) ==
    (/\ resp.op = "create_or_update_flow" /\ resp.status = 200
     /\ UserExists(s.user_id) /\ Role(s.user_id) = "ADMIN"
     /\ users[s.user_id].company_id = flows[resp.id].company_id
     /\ create_or_update_flow(s, flows[resp.id].name,
                              [is_list |-> TRUE, items |-> flows[resp.id].steps],
                              flows[resp.id].is_default))
        => (flows' = flows /\ resp' = resp)

C2_FlowsKeyedByCompanyAndName ==
    [][/\ C2_OnePerName'
       /\ (resp'.op = "create_or_update_flow" /\ resp'.status = 200) =>
            \A s \in sessions :
                /\ C2_Repeated(s)
                /\ \A n \in FlowNames, st \in StepsInputs :
                     create_or_update_flow(s, n, st, TRUE) => C2_Saved(s, n, st, TRUE)]_vars

\* Two companies each have a flow of the same name with different steps, and the
\* last save replaced the two steps of one of them by the same steps in the other
\* order.
C2_Witness ==
    /\ resp.op = "create_or_update_flow" /\ resp.status = 200
    /\ Len(flows) = 2
    /\ flows[1].name = flows[2].name
    /\ flows[1].company_id # flows[2].company_id
    /\ flows[1].steps = <<"manager", "finance">>
    /\ flows[2].steps = <<"finance", "manager">>
    /\ resp.id = 1

\* ------------------------------------------------------------ OTP claims
OtpRowsOf(u, t) == {i \in 1..Len(otps) : otps[i].user_id = u /\ otps[i].otp_type = t}
UnusedOtps(u, t) == {i \in OtpRowsOf(u, t) : ~otps[i].is_used}
\* What a step that is a verify_otp request for u and t leaves when the request
\* passed the permission check and is answered in this step
AnsweredTo(u, t) ==
    /\ requests' = requests
    /\ resp'.op = "verify_otp" /\ resp'.status = 200
    /\ resp'.id = u /\ resp'.info.otp_type = t
\* What a step that is a verify_otp request for u and t leaves when the request
\* waits, the code accepted and used, for the user to be marked verified
AwaitsMark(u, t) ==
    /\ t = "signup"
    /\ \E r \in requests' \ requests : r.pc = "mark_verified" /\ r.user_id = u
\* The step is a verify_otp request for u and t that is answered in this step
VerifyAnswered(u, t) ==
    AnsweredTo(u, t) /\ \E s \in Cookies, c \in Codes : verify_otp(s, u, t, c)
\* The step is a verify_otp request for u and t that waits to mark the user
VerifyAwaitsMark(u, t) ==
    AwaitsMark(u, t) /\ \E s \in Cookies, c \in Codes : verify_otp(s, u, t, c)
\* The step is a verify_otp request for u and t that accepted the code
VerifyAccepted(u, t) ==
    \/ VerifyAnswered(u, t) /\ resp'.info.success
    \/ VerifyAwaitsMark(u, t)

\* C7: whatever has been sent, resent, verified and cleaned up, every OTP row that
\* has a later row of the same user and type is used: at most one row of a user
\* and type is unused, and it is the most recently created one.
C7_OneUnusedOtpTheNewest ==
    \A i, j \in 1..Len(otps) :
        (i < j /\ otps[i].user_id = otps[j].user_id /\ otps[i].otp_type = otps[j].otp_type)
            => otps[i].is_used

\* A resend has just replaced a code nobody had tried: the old row is used, the
\* new one is not
C7_Witness ==
    /\ resp.op = "resend_otp" /\ resp.status = 200 /\ resp.info.success
    /\ \E i, j \in 1..Len(otps) :
        /\ i < j /\ otps[i].user_id = otps[j].user_id /\ otps[i].otp_type = otps[j].otp_type
        /\ otps[i].is_used /\ otps[i].attempts = 0 /\ otps[i].expires_at > now
        /\ ~otps[j].is_used

\* The table holds a row that a verification with these arguments may accept
AcceptableOtp(u, t, c) ==
    \E i \in 1..Len(otps) :
        /\ otps[i].user_id = u /\ otps[i].otp_type = t
        /\ ~otps[i].is_used
        /\ now <= otps[i].expires_at
        /\ otps[i].attempts < otps[i].max_attempts
        /\ otps[i].otp_code = c

\* C8: a verify_otp request answers success only when, as it is made, an OTP row
\* of that user and that type is unused, unexpired, below its attempt limit and
\* carries the code provided.
\* The attempt being made counts against the limit: the row that is accepted has
\* room for it, so a correct code offered as the last attempt is not accepted.
\* The success of a signup code is answered by the second step of the request,
\* which only a request that accepted the code reaches.
C8_SuccessNeedsMatchingLiveOtp ==
    [][/\ \A s \in Cookies, u \in 1..MaxVerifyUsers, t \in OtpTypes, c \in Codes :
            (/\ (AnsweredTo(u, t) /\ resp'.info.success) \/ AwaitsMark(u, t)
             /\ verify_otp(s, u, t, c)) =>
                /\ AcceptableOtp(u, t, c)
                /\ \E i \in UnusedOtps(u, t) :
                    /\ otps[i].otp_code = c
                    /\ now <= otps[i].expires_at
                    /\ otps[i].attempts + 1 < otps[i].max_attempts
       /\ \A r \in requests' \ requests : r.pc = "mark_verified" =>
            VerifyAwaitsMark(r.user_id, "signup")
       /\ VerifyMarkVerified =>
            \E r \in requests \ requests' :
                /\ r.pc = "mark_verified" /\ resp'.id = r.user_id
                /\ resp'.info.success /\ resp'.info.otp_type = "signup"]_vars

\* The signup code of one user has just been accepted and the user marked
\* verified, while the code of another user, a different code, is still unused
\* after four wrong guesses
C8_Witness ==
    /\ resp.op = "verify_otp" /\ resp.status = 200 /\ resp.info.success
    /\ resp.info.otp_type = "signup"
    /\ users[resp.id].is_email_verified
    /\ \E i \in OtpRowsOf(resp.id, "signup"), v \in 1..Len(users) : \E j \in UnusedOtps(v, "signup") :
        /\ v # resp.id
        /\ otps[i].is_used /\ otps[i].attempts >= 1
        /\ otps[i].otp_code # otps[j].otp_code
        /\ otps[j].attempts = otps[j].max_attempts - 1

\* What the last response told the client about the attempts left on the code
AttemptsReportedLeft(u, t) ==
    \/ /\ resp.op = "verify_otp" /\ resp.status = 200
       /\ resp.id = u /\ resp.info.otp_type = t
       /\ ~resp.info.success /\ resp.info.remaining > 0
    \/ /\ resp.op = "otp_status" /\ resp.status = 200
       /\ resp.id = u /\ resp.info.otp_type = t
       /\ resp.info.status.is_valid /\ resp.info.status.attempts_remaining > 0

\* C9: when a failed verification has just reported attempts remaining, or the
\* status has just reported a valid code with attempts remaining, a verification
\* with the correct code made next by a permitted caller succeeds.
C9_CorrectCodeAcceptedWhileAttemptsRemain ==
    [][\A s \in Cookies, u \in 1..MaxOtpUsers, t \in OtpTypes, c \in Codes :
        (/\ AttemptsReportedLeft(u, t)
         /\ otp_permitted(s, u, t)
         /\ \E i \in get_active_otp(u, t) : otps[i].otp_code = c
         /\ verify_otp(s, u, t, c))
            => VerifyAccepted(u, t)]_vars

\* C10: a successful verify_otp leaves no unused OTP row of that user and type;
\* while there is none every verify_otp of that user and type fails, whatever the
\* code; and an unused row appears only as a newly created last row.  So a code
\* that was accepted is refused from then on, until a new OTP is created.
C10_AcceptedOnce ==
    [][\A u \in 1..MaxOtpUsers, t \in OtpTypes :
        /\ VerifyAccepted(u, t) => UnusedOtps(u, t)' = {}
        /\ UnusedOtps(u, t) = {} => ~VerifyAccepted(u, t)
        /\ (UnusedOtps(u, t) = {} /\ UnusedOtps(u, t)' # {}) =>
            /\ SignupCreateOtp \/ SendOtp \/ ResendOtp
            /\ UnusedOtps(u, t)' = {Len(otps')}]_vars

\* The signup code was accepted, the account is verified, and the same request
\* made again has just been answered that no valid code exists
C10_Witness ==
    /\ resp.op = "verify_otp" /\ resp.status = 200 /\ ~resp.info.success
    /\ resp.info.otp_type = "signup"
    /\ resp.info.message = "No valid verification code found. Please request a new one."
    /\ UserExists(resp.id) /\ users[resp.id].is_email_verified
    /\ \E i \in OtpRowsOf(resp.id, "signup") :
        otps[i].is_used /\ otps[i].attempts >= 1 /\ otps[i].expires_at > now

\* ------------------------------------------------------- approval steps
\* The step is an approve request that was permitted (a signup in flight commits
\* without answering, the last response is then an older one)
AppApproved == resp'.op = "approve_expense" /\ resp'.status = 200 /\ ApproveExpense
RootApproved ==
    /\ resp'.op = "root_approve_expense" /\ resp'.info = <<"Expense approved successfully.">>
    /\ RootApprove

\* The step is an approve on the expense detail page that was carried out: the
\* decision is committed and its notification awaited
DetailApproved == rootNotices' # rootNotices /\ DetailApprove
\* The expenses the step decided on the detail page
DetailDecided == {n.expense_id : n \in rootNotices' \ rootNotices}
\* The step is an approve request, of any of the three views
ApproveStep ==
    \/ resp'.op = "approve_expense" /\ ApproveExpense
    \/ resp'.op = "root_approve_expense" /\ RootApprove
    \/ (resp'.op = "manager_expense_detail" \/ rootNotices' # rootNotices) /\ DetailApprove

\* The flows of the expense's company placed after the expense's current step
LaterSteps(expense) ==
    {f \in 1..Len(rootFlows) :
        /\ rootFlows[f].company_id = expense.company_id
        /\ rootFlows[f].sequence_order > expense.current_approver_step}

\* C4 as stated: every approve that is carried out, in the app variant, by
\* manager.approve_expense or on the expense detail page of the root variant, sets
\* the expense's status to the approved one in that step, and no approve request
\* changes the status of an expense to anything else or moves an expense to
\* another approval step.
C4_EveryApproveApproves ==
    [][/\ AppApproved => expenses'[resp'.id].status = "APPROVED"
       /\ RootApproved => rootExpenses'[resp'.id].status = "APPROVED"
       /\ DetailApproved => \A e \in DetailDecided : rootExpenses'[e].status = "APPROVED"
       /\ \A e \in 1..Len(expenses) :
            (expenses'[e].status # expenses[e].status /\ ApproveStep) =>
                expenses'[e].status = "APPROVED"
       /\ \A e \in 1..Len(rootExpenses) :
            (rootExpenses'[e] # rootExpenses[e] /\ ApproveStep) =>
                /\ rootExpenses'[e].status = "APPROVED"
                /\ rootExpenses'[e].current_approver_step =
                        rootExpenses[e].current_approver_step]_vars

\* C4 as amended: an approve of the app variant that is carried out sets the
\* expense APPROVED, and so does an approve on the expense detail page of the root
\* variant.  An approve carried out by manager.approve_expense of the root variant
\* sets the expense APPROVED and leaves its step unless the expense has an
\* approval flow and its company has a flow placed after the expense's current
\* step: then the expense becomes IN_PROGRESS and its current step becomes the
\* step_number of such a flow with the least sequence_order.  No approve request
\* changes another expense, and an approve request that is not carried out
\* changes none.
C4_ApproveIsFinalUnlessLaterStep ==
    [][/\ AppApproved => expenses'[resp'.id].status = "APPROVED"
       /\ DetailApproved =>
            \A e \in DetailDecided :
                /\ rootExpenses'[e].status = "APPROVED"
                /\ rootExpenses'[e].current_approver_step = rootExpenses[e].current_approver_step
       /\ RootApproved =>
            LET before == rootExpenses[resp'.id]
                after == rootExpenses'[resp'.id]
                later == LaterSteps(before)
            IN IF before.approval_flow_id # None /\ later # {}
               THEN /\ after.status = "IN_PROGRESS"
                    /\ \E f \in later :
                        /\ \A g \in later :
                            rootFlows[f].sequence_order <= rootFlows[g].sequence_order
                        /\ after.current_approver_step = rootFlows[f].step_number
               ELSE /\ after.status = "APPROVED"
                    /\ after.current_approver_step = before.current_approver_step
       /\ \A e \in 1..Len(expenses) :
            (expenses'[e] # expenses[e] /\ ApproveStep) => (resp'.id = e /\ AppApproved)
       /\ \A e \in 1..Len(rootExpenses) :
            (rootExpenses'[e] # rootExpenses[e] /\ ApproveStep) =>
                \/ resp'.id = e /\ RootApproved
                \/ e \in DetailDecided /\ DetailApproved]_vars

\* A manager.approve_expense of the root variant has just moved an expense to its
\* second step, still IN_PROGRESS, while an expense of the app variant stands
\* approved
C4_Witness ==
    /\ resp.op = "root_approve_expense" /\ resp.info = <<"Expense approved successfully.">>
    /\ rootExpenses[resp.id].status = "IN_PROGRESS"
    /\ rootExpenses[resp.id].current_approver_step = 2
    /\ \E h \in 1..Len(rootHistory) :
        rootHistory[h].expense_id = resp.id /\ rootHistory[h].action = "Approved"
    /\ \E e \in 1..Len(expenses) : expenses[e].status = "APPROVED"

\* ------------------------------------------------------------ resend limit
\* An active row of the user and type has more than 480 seconds left
ResendBlocked(u, t) ==
    \E i \in OtpRowsOf(u, t) :
        /\ ~otps[i].is_used
        /\ otps[i].attempts < otps[i].max_attempts
        /\ otps[i].expires_at > now
        /\ (otps[i].expires_at - now) * 60 > 480

\* The table after the step is the table before it with the unused rows of the user
\* and type marked used and one fresh row for the code appended
ResendCreated(u, t, c) ==
    /\ Len(otps') = Len(otps) + 1
    /\ otps'[Len(otps')] =
            [user_id |-> u, otp_type |-> t, email |-> users[u].email, otp_code |-> c,
             is_used |-> FALSE, attempts |-> 0, max_attempts |-> 5, expires_at |-> now + 10]
    /\ \A i \in 1..Len(otps) :
            otps'[i] = IF otps[i].user_id = u /\ otps[i].otp_type = t
                      THEN [otps[i] EXCEPT !.is_used = TRUE] ELSE otps[i]

\* C11: a permitted resend_otp for an existing user creates a new OTP, answering
\* what the mail delivery answered, exactly when no active OTP of the user and type
\* has more than 480 seconds left; otherwise it answers 'Please wait before
\* requesting a new code' and the OTP table is as before.  For a user that does not
\* exist the service answers 'User not found' and returns the table as it was.
C11_ResendRateLimited ==
    [][/\ (resp'.op = "resend_otp" \/ requests' # requests) =>
            \A s \in Cookies, u \in 1..MaxOtpUsers, t \in OtpTypes, c \in Codes :
                (otp_permitted(s, u, t) /\ resend_otp(s, u, t, c)) =>
                    IF UserExists(u) /\ ~ResendBlocked(u, t)
                    THEN /\ ResendCreated(u, t, c)
                         /\ \E r \in requests' \ requests :
                                r.pc = "resend_otp.mail" /\ r.user_id = u /\ r.otp_type = t
                    ELSE /\ otps' = otps
                         /\ resp'.op = "resend_otp"
                         /\ ~resp'.info.success
                         /\ resp'.info.message = "Please wait before requesting a new code"
       /\ \A r \in requests, sent \in BOOLEAN :
            resend_otp_answer(r, sent) =>
                /\ otps' = otps
                /\ resp'.id = r.user_id /\ resp'.info.otp_type = r.otp_type
                /\ resp'.info.success = sent
       /\ \A t \in OtpTypes, c \in Codes, sent \in BOOLEAN :
            \A i \in first(get_active_otp(Len(users) + 1, t)) :
            LET r == OTPService_resend_otp(Len(users) + 1, t, i, c, sent)
            IN r.message = "User not found" /\ ~r.success /\ r.table = otps]_vars

\* A resend has just been refused as too soon after an earlier resend replaced the
\* user's code: the replaced row is used, the new one unused with all its time left
C11_Witness ==
    /\ resp.op = "resend_otp" /\ resp.status = 200 /\ ~resp.info.success
    /\ resp.info.message = "Please wait before requesting a new code"
    /\ \E i, j \in 1..Len(otps) :
        /\ i < j /\ otps[i].user_id = otps[j].user_id /\ otps[i].otp_type = otps[j].otp_type
        /\ otps[i].is_used /\ ~otps[j].is_used
        /\ otps[j].expires_at = now + 10
        /\ now > 0

\* --------------------------------------------------------- password reset
ResetInputs == {"new", "newer", ""} \X {"new", "newer"}
\* The step is a reset_password request that changed a password
ResetDone == resp'.op = "reset_password" /\ resp'.id # None

\* The password_reset codes of a user that have been tried and are used: every
\* code a verify_otp request accepted is among them
TriedAndUsedResetCodes(u) ==
    {i \in OtpRowsOf(u, "password_reset") : otps[i].is_used /\ otps[i].attempts >= 1}

\* C12: a reset_password request sets a password only when the session presented
\* carries the verified flag, and then it sets the password of the user the session
\* names and nothing else, and the session the response leaves has the flag cleared;
\* without the flag the request is refused and nothing changes.  A session carrying
\* the flag for a user is issued only by a successful verify_otp of a
\* 'password_reset' code of that user, or derived from a session that carried it
\* already; no other request changes a password.  A further reset needs a new
\* verification: when the request answered last reset the password of a user and
\* this request resets it again, two codes of that user have been accepted.
C12_ResetNeedsVerifiedSession ==
    [][/\ resp'.op = "reset_password" =>
            \A s \in Cookies, i \in ResetInputs :
                reset_password(s, i[1], i[2]) =>
                    IF ResetDone
                    THEN /\ s.password_reset_verified
                         /\ UserExists(s.password_reset_user_id)
                         /\ resp'.id = s.password_reset_user_id
                         /\ users' = [users EXCEPT ![s.password_reset_user_id].password = i[1]]
                         /\ resp'.info[2] \in sessions'
                         /\ ~resp'.info[2].password_reset_verified
                         /\ resp'.info[2].password_reset_user_id = None
                         /\ resp'.info[2].pending_user_id = s.pending_user_id
                    ELSE UNCHANGED <<users, sessions>>
       /\ \A s \in Cookies, i \in ResetInputs :
            (~s.password_reset_verified /\ reset_password(s, i[1], i[2]))
                => (~ResetDone /\ UNCHANGED <<users, sessions>>)
       /\ \A u \in 1..Len(users) : users'[u].password # users[u].password => ResetDone
       /\ \A c \in sessions' \ sessions : c.password_reset_verified =>
            \/ /\ resp'.op = "verify_otp" /\ resp'.info.success
               /\ resp'.info.otp_type = "password_reset"
               /\ resp'.id = c.password_reset_user_id
               /\ \E r \in OtpRowsOf(resp'.id, "password_reset") :
                    ~otps[r].is_used /\ otps'[r].is_used /\ otps'[r].attempts = otps[r].attempts + 1
            \/ /\ ~ResetDone
               /\ \E s \in sessions :
                    /\ s.password_reset_verified
                    /\ s.password_reset_user_id = c.password_reset_user_id
       /\ \A u \in 1..Len(users) :
            (/\ resp.op = "reset_password" /\ resp.id = u
             /\ ResetDone /\ resp'.id = u
             /\ \E s \in Cookies, i \in ResetInputs : reset_password(s, i[1], i[2]))
                => Cardinality(TriedAndUsedResetCodes(u)) >= 2]_vars

\* ------------------------------------------------------------------ login
\* C13: whenever a signup or a login leaves a session in which a user is logged
\* in, that user's email is verified and the account is active.
C13_OnlyVerifiedActiveLoggedIn ==
    [][resp'.op \in {"signup", "login"} =>
        \A c \in sessions' \ sessions :
            c.user_id # None =>
                (users'[c.user_id].is_email_verified /\ users'[c.user_id].is_active)]_vars

\* ----------------------------------------------------- email verification
\* C14: a user whose is_email_verified flag is set has a signup code that was
\* created for the user's current email address, was tried and is used.
C14_VerifiedMeansCurrentAddressVerified ==
    \A u \in 1..Len(users) :
        users[u].is_email_verified =>
            \E i \in OtpRowsOf(u, "signup") :
                /\ otps[i].email = users[u].email
                /\ otps[i].is_used
                /\ otps[i].attempts >= 1

\* ------------------------------------------------------- attempt counting
\* C15: every verify_otp request that reaches an active code and fails adds one to
\* the stored attempts of that code, and once a request has been answered that the
\* maximum of attempts is exceeded the code is no longer active: get_active_otp
\* returns nothing for the user and type.
C15_FailedAttemptsCountedDurably ==
    [][\A s \in Cookies, u \in 1..MaxOtpUsers, t \in OtpTypes, c \in Codes :
        (/\ otp_permitted(s, u, t)
         /\ verify_otp(s, u, t, c)
         /\ VerifyAnswered(u, t) /\ ~resp'.info.success) =>
            /\ \A i \in get_active_otp(u, t) : otps'[i].attempts = otps[i].attempts + 1
            /\ resp'.info.message = "Invalid verification code. Maximum attempts exceeded."
                    => get_active_otp(u, t)' = {}]_vars

\* ------------------------------------------------------ manager references
\* The manager a profile names is a user of the company of the profile's user
ManagersInCompany ==
    \A u \in 1..Len(users) :
        (users[u].profile.exists /\ users[u].profile.manager_id # None) =>
            /\ UserExists(users[u].profile.manager_id)
            /\ users[users[u].profile.manager_id].company_id = users[u].company_id
\* The request names a manager that is not a user of the company
ForeignManager(manager_id, company_id) ==
    /\ manager_id # None
    /\ ~(UserExists(manager_id) /\ users[manager_id].company_id = company_id)

\* C16: every profile's manager is an existing user of the company of the profile's
\* user, and a signup or create_user that names, for a new employee or manager, a
\* manager that is not an existing user of that company is answered 'Manager must
\* belong to the same company.' and leaves users and companies as they were.
C16_ManagerOfSameCompany ==
    [][/\ ManagersInCompany'
       /\ \A p \in CompleteSignups({"", "manager"}, CompanyIds, 0..MaxUsers) :
            (/\ p.company \in companies
             /\ ~EmailTaken(lower(p.email))
             /\ ForeignManager(p.manager_id, p.company)
             /\ signup(EmptySession, p)) =>
                /\ resp'.info = <<"Manager must belong to the same company.">>
                /\ UNCHANGED <<users, companies>>
       /\ \A s \in Cookies, p \in CreateUserPayloads :
            (/\ role_required(s, "ADMIN") = 0
             /\ ~p.missing /\ ~EmailTaken(lower(p.email)) /\ p.role = "employee"
             /\ ForeignManager(p.manager_id, users[current_user(s)].company_id)
             /\ create_user(s, p)) =>
                /\ resp'.info = <<"Manager must belong to the same company.">>
                /\ UNCHANGED <<users, companies>>]_vars

\* ------------------------------------------------------- expense detail
\* The caller is a Manager or an Admin of the company of the expense
MayDecideOnDetail(c, e) ==
    /\ RootUserExists(c)
    /\ rootUsers[c].role \in {"Manager", "Admin"}
    /\ e \in 1..Len(rootExpenses)
    /\ rootExpenses[e].company_id = rootUsers[c].company_id

\* C17: manager_expense_detail changes an expense only for a logged-in Manager or
\* Admin of the expense's own company who sends a valid decision: the expense then
\* gets the decided status, the caller as approver, the time and the notes, and no
\* other expense changes.  For any other caller every expense keeps its status,
\* approver, decided_at and manager_notes: a Manager or Admin of another company
\* is answered 'Expense not found.', a caller with another role that approving
\* is not permitted, and a caller who is not logged in is sent to log in.
C17_DetailDecidesOwnCompanyOnly ==
    [][(resp'.op = "manager_expense_detail" \/ rootNotices' # rootNotices) =>
        \A c \in RootCallers, e \in 1..MaxRootExpenses, d \in Decisions, n \in NotesInputs :
            manager_expense_detail(c, e, d, n) =>
                IF MayDecideOnDetail(c, e) /\ d # ""
                THEN /\ rootExpenses'[e].status = (IF d = "approve" THEN "APPROVED" ELSE "REJECTED")
                     /\ rootExpenses'[e].approved_by_user_id = c
                     /\ rootExpenses'[e].decided_at = <<now>>
                     /\ rootExpenses'[e].manager_notes = (IF n = "" THEN <<>> ELSE <<"ok">>)
                     /\ rootExpenses'[e].company_id = rootUsers[c].company_id
                     /\ \A x \in 1..Len(rootExpenses) : x # e => rootExpenses'[x] = rootExpenses[x]
                ELSE /\ rootExpenses' = rootExpenses
                     /\ (/\ RootUserExists(c) /\ rootUsers[c].role \in {"Manager", "Admin"}
                         /\ ~MayDecideOnDetail(c, e))
                            => resp'.info = <<"Expense not found.">>
                     /\ (RootUserExists(c) /\ rootUsers[c].role \notin {"Manager", "Admin"})
                            => resp'.info = <<"You do not have permission to approve expenses.">>
                     /\ ~RootUserExists(c)
                            => resp'.info = <<"Please log in to access expenses.">>]_vars

\* An Employee of the expense's own company has just been refused on the detail
\* page of an expense that an Admin or Manager of that company had rejected with
\* notes, and the decision stands; a second company has its own Admin
C17_Witness ==
    /\ resp.op = "manager_expense_detail"
    /\ resp.info = <<"You do not have permission to approve expenses.">>
    /\ \E e \in 1..Len(rootExpenses), a, b, c \in 1..Len(rootUsers) :
        /\ rootExpenses[e].status = "REJECTED"
        /\ rootExpenses[e].approved_by_user_id = a
        /\ rootExpenses[e].manager_notes = <<"ok">>
        /\ rootUsers[a].company_id = rootExpenses[e].company_id
        /\ rootUsers[b].company_id # rootExpenses[e].company_id
        /\ rootUsers[b].role = "Admin"
        /\ rootUsers[c].company_id = rootExpenses[e].company_id
        /\ rootUsers[c].role = "Employee"

\* ------------------------------------------------------- tenant isolation
\* C18: an expense's status changes only on a successful approve or reject of that
\* expense, and the manager whose session made that request belongs to the company
\* of the expense; expenses keep their company.
C18_DecisionsStayInCompany ==
    [][/\ \A e \in 1..Len(expenses) :
            expenses'[e].status # expenses[e].status =>
                /\ resp'.op \in {"approve_expense", "reject_expense"}
                /\ resp'.status = 200 /\ resp'.id = e
                /\ expenses'[e].company_id = expenses[e].company_id
       /\ \A s \in Cookies, e \in 1..MaxExpenses :
            ((approve_expense(s, e, "ok") \/ reject_expense(s, e, "no")) /\ resp'.status = 200) =>
                /\ Role(s.user_id) = "MANAGER"
                /\ users[s.user_id].company_id = expenses[e].company_id
                /\ users[s.user_id].company_id = users[expenses[e].submitter_user_id].company_id]_vars

\* A manager of another company has just been answered 404 for an expense that is
\* still pending with the submitter's own manager
C18_Witness ==
    /\ resp.op \in {"approve_expense", "reject_expense"} /\ resp.status = 404
    /\ \E e \in 1..Len(expenses), a \in 1..Len(approvals), s \in sessions :
        /\ resp.id = e
        /\ approvals[a].expense_id = e /\ approvals[a].status = "PENDING"
        /\ expenses[e].status = "PENDING"
        /\ approvals[a].approver_user_id # None
        /\ Role(approvals[a].approver_user_id) = "MANAGER"
        /\ users[approvals[a].approver_user_id].company_id = expenses[e].company_id
        /\ UserExists(s.user_id) /\ Role(s.user_id) = "MANAGER"
        /\ users[s.user_id].company_id # expenses[e].company_id

====
